---- MODULE Spec2Model ----
(***************************************************************************)
(* A model of invoke_tasks.infra.infra_config: the descriptor loader       *)
(* (load_infra_config), the variables.tf parser (_parse_variables_tf), the *)
(* validator (_validate_tfvars_against_variables), the tfvars generator    *)
(* (_generate_tfvars_files) and the lookups of InfraConfig.                *)
(*                                                                         *)
(* Text is a sequence of tokens (a keyword, a word, or one punctuation or  *)
(* whitespace character), a name is a sequence of characters, a path is a  *)
(* sequence of components, a Python dict is a sequence of <<key, value>>   *)
(* pairs in insertion order, and a raised exception is a record.           *)
(***************************************************************************)
EXTENDS Integers, Sequences, FiniteSets, TLC

VARIABLES
    files,      \* the file system: path -> content, for the files that exist
    dirs,       \* the directories that exist
    decls,      \* the declarations the variables.tf under test was written from
    tv,         \* the TfVars handed to the validator under test
    parsed,     \* what _parse_variables_tf returned or raised
    verdict,    \* what _validate_tfvars_against_variables returned or raised
    raw,        \* the parsed infra.yaml
    pc,         \* the position of load_infra_config
    envs,       \* load_infra_config's local list of EnvConfig
    buckets,    \* load_infra_config's local list of BackendBucket
    tfvars,     \* load_infra_config's local list of TfVars
    idx,        \* the index of the TfVars the final loop is at
    validated,  \* the TfVars whose validation returned, with the directory used
    writes,     \* the files written so far, in order, each with its TfVars' env
    reads,      \* the files read so far, in order
    outcome,    \* what load_infra_config returned or raised
    config,     \* the InfraConfig the lookups are made on
    lookup,     \* what the last lookup returned or raised
    fmt_value,  \* the value handed to _format_tfvars_value under test
    formatted,  \* what _format_tfvars_value returned
    gen_tv,     \* the TfVars handed to _generate_tfvars_files under test
    generated,  \* what each call of _generate_tfvars_files returned or raised
    cwd,        \* the current directory of the process
    root_arg,   \* the project_root handed to load_infra_config, or None
    resolved,   \* the root load_infra_config resolved, or what the search raised
    descriptor, \* what _read_infra_config returned or raised at that root
    given_env,  \* the EnvConfig handed to the provider functions
    given_bucket, \* the BackendBucket handed to create_backend_bucket
    commands,   \* the commands run through the invoke context, in order
    called      \* what the function or task under test returned or raised

vars == <<files, dirs, decls, tv, parsed, verdict, raw, pc, envs, buckets,
          tfvars, idx, validated, writes, reads, outcome, config, lookup,
          fmt_value, formatted, gen_tv, generated,
          cwd, root_arg, resolved, descriptor, given_env, given_bucket, commands, called>>

parseVars == <<decls, tv, parsed, verdict>>
loadVars == <<raw, pc, envs, buckets, tfvars, idx, validated, writes, reads, outcome>>
lookupVars == <<config, lookup>>
genVars == <<fmt_value, formatted, gen_tv, generated>>
rootVars == <<cwd, root_arg, resolved, descriptor>>
runVars == <<given_env, given_bucket, commands, called>>

-----------------------------------------------------------------------------
(* Bounds of the model.                                                    *)

MaxDecls == 2
MaxEnvs == 2
MaxStrLen == 2
MaxItems == 2
MaxVars == 2
MaxCalls == 2
MaxDepth == 2

-----------------------------------------------------------------------------
(* Sequences, dicts and sets.                                              *)

Range(s) == {s[i] : i \in 1..Len(s)}

Min(S) == CHOOSE x \in S : \A y \in S : x <= y

\* The sequences without repetition over S, of length 0..n.
RECURSIVE DistinctSeqs(_, _)
DistinctSeqs(S, n) ==
    IF n = 0 THEN {<<>>}
    ELSE LET shorter == DistinctSeqs(S, n - 1)
         IN shorter \cup
            {Append(q[1], q[2]) :
                q \in {r \in shorter \X S : Len(r[1]) = n - 1 /\ r[2] \notin Range(r[1])}}

\* dict.keys(), as a list and as a set; key in dict; dict[key]; dict.get(key).
DictKeys(d) == [i \in 1..Len(d) |-> d[i][1]]
DictKeySet(d) == {d[i][1] : i \in 1..Len(d)}
DictHas(d, k) == k \in DictKeySet(d)
DictGet(d, k) == d[CHOOSE i \in 1..Len(d) : d[i][1] = k][2]

-----------------------------------------------------------------------------
(* Letter case: str.upper() and str.lower() on names, a name being a       *)
(* sequence of characters.                                                 *)

LowerLetters == <<"d", "e", "v", "p", "r", "o", "s", "t", "g", "a", "w", "c",
                  "z", "u">>
UpperLetters == <<"D", "E", "V", "P", "R", "O", "S", "T", "G", "A", "W", "C",
                  "Z", "U">>

UpperChar(c) ==
    IF \E i \in 1..Len(LowerLetters) : LowerLetters[i] = c
    THEN UpperLetters[CHOOSE i \in 1..Len(LowerLetters) : LowerLetters[i] = c]
    ELSE c

LowerChar(c) ==
    IF \E i \in 1..Len(UpperLetters) : UpperLetters[i] = c
    THEN LowerLetters[CHOOSE i \in 1..Len(UpperLetters) : UpperLetters[i] = c]
    ELSE c

upper(name) == [i \in 1..Len(name) |-> UpperChar(name[i])]
lower(name) == [i \in 1..Len(name) |-> LowerChar(name[i])]

-----------------------------------------------------------------------------
(* Text scanning: the regular expressions of _parse_variables_tf, on       *)
(* tokens.  \s is a space or a newline, \w+ a run of word tokens.          *)

Space == {" ", "\n"}
Word == {"variable", "default", "a", "b", "c", "x", "k", "v", "type", "string",
         "object", "validation", "condition", "true"}

\* The first position from p on whose token is not in Class (Len + 1 if none).
SkipWhile(c, p, Class) ==
    LET stops == {q \in p..Len(c) : c[q] \notin Class}
    IN IF stops = {} THEN Len(c) + 1 ELSE Min(stops)

\* variable\s+"(\w+)" matched at position p: the position after the match
\* (0 if there is no match at p) and group 1.  s is where the whitespace
\* after the keyword ends and w where the word run after the quote ends.
MatchedName(c, p, s, w) ==
    IF /\ p <= Len(c) /\ c[p] = "variable"
       /\ s > p + 1 /\ s <= Len(c) /\ c[s] = "\""
       /\ w > s + 1 /\ w <= Len(c) /\ c[w] = "\""
    THEN [end |-> w + 1, name |-> SubSeq(c, s + 1, w - 1)]
    ELSE [end |-> 0, name |-> <<>>]

MatchedQuote(c, p, s) == MatchedName(c, p, s, SkipWhile(c, s + 1, Word))

MatchVariable(c, p) == MatchedQuote(c, p, SkipWhile(c, p + 1, Space))

\* variable\s+"(\w+)"\s*\{ matched at position p: h is the match of the
\* part before \s*, b where the whitespace after it ends.
MatchedBrace(c, h, b) ==
    IF h.end > 0 /\ b <= Len(c) /\ c[b] = "{"
    THEN [end |-> b + 1, name |-> h.name]
    ELSE [end |-> 0, name |-> <<>>]

MatchedHeader(c, h) == MatchedBrace(c, h, SkipWhile(c, h.end, Space))

MatchVariableBlock(c, p) == MatchedHeader(c, MatchVariable(c, p))

\* re.findall(r'variable\s+"(\w+)"', content), as a set, scanning from p.
RECURSIVE FindAllVariables(_, _)
\* A scan that stops at the first match.
FindFirstOnly(c, p, m) ==
    IF m.end > 0 THEN {m.name}
    ELSE FindAllVariables(c, p + 1)

FindAllFrom(c, p, m) ==
    IF m.end > 0 THEN {m.name} \cup FindAllVariables(c, m.end)
    ELSE FindAllVariables(c, p + 1)

FindAllVariables(c, p) ==
    IF p > Len(c) THEN {} ELSE FindAllFrom(c, p, MatchVariable(c, p))

\* re.finditer(r'variable\s+"(\w+)"\s*\{', content): the matches in order.
RECURSIVE FindIterBlocks(_, _)
FindIterFrom(c, p, m) ==
    IF m.end > 0 THEN <<m>> \o FindIterBlocks(c, m.end)
    ELSE FindIterBlocks(c, p + 1)

FindIterBlocks(c, p) ==
    IF p > Len(c) THEN <<>> ELSE FindIterFrom(c, p, MatchVariableBlock(c, p))

\* A brace scan that does not count the opening braces.
DepthAfterClosingOnly(depth, token) == IF token = "}" THEN depth - 1 ELSE depth

\* The depth a token takes the brace scan to.
DepthAfter(depth, token) ==
    CASE token = "{" -> depth + 1
      [] token = "}" -> depth - 1
      [] OTHER -> depth

\* The inner loop of _parse_variables_tf from index i at the given depth:
\* the index of the closing brace that takes the depth to 0, 0 when the
\* content ends first.
RECURSIVE BlockClose(_, _, _)
BlockClose(c, i, depth) ==
    IF i > Len(c) THEN 0
    ELSE IF DepthAfter(depth, c[i]) = 0 /\ c[i] = "}" THEN i
         ELSE BlockClose(c, i + 1, DepthAfter(depth, c[i]))

\* re.search(r'^\s*default\s*=', body, re.MULTILINE): the match from a
\* line start p, d being where the whitespace from p on ends.
DefaultAssigned(body, d, e) ==
    /\ d <= Len(body) /\ body[d] = "default"
    /\ e <= Len(body) /\ body[e] = "="

DefaultAt(body, d) == DefaultAssigned(body, d, SkipWhile(body, d + 1, Space))

HasDefaultLine(body) ==
    \E p \in 1..Len(body) :
        /\ p = 1 \/ body[p - 1] = "\n"
        /\ DefaultAt(body, SkipWhile(body, p, Space))

-----------------------------------------------------------------------------
(* Paths and raised exceptions.                                            *)

ProjectRoot == <<"root">>
PathJoin(path, name) == Append(path, name)

Raised(type, what, detail) ==
    [raised |-> TRUE, returned |-> FALSE, type |-> type, what |-> what,
     detail |-> detail]

Pending == [raised |-> FALSE, returned |-> FALSE]

-----------------------------------------------------------------------------
(* _parse_variables_tf                                                     *)

\* The blocks the finditer loop visits: the name, the index of the first
\* token of the body, and the index of the closing brace the scan stops at.
BlocksOf(content, ms) ==
    [j \in 1..Len(ms) |->
        [name |-> ms[j].name, start |-> ms[j].end,
         close |-> BlockClose(content, ms[j].end, 1)]]

VariableBlocks(content) == BlocksOf(content, FindIterBlocks(content, 1))

\* defaulted: the blocks that are closed and whose body has a default line.
DefaultedAmong(content, bs) ==
    {bs[j].name : j \in {k \in 1..Len(bs) :
        /\ bs[k].close > 0
        /\ HasDefaultLine(SubSeq(content, bs[k].start, bs[k].close - 1))}}

Defaulted(content) == DefaultedAmong(content, VariableBlocks(content))

parse_variables_tf(fs, infra_dir) ==
    LET variables_tf == PathJoin(infra_dir, <<"variables.tf">>)
    IN IF variables_tf \notin DOMAIN fs
       THEN Raised("FileNotFoundError", "variables.tf not found", [path |-> variables_tf])
       ELSE [raised |-> FALSE, returned |-> TRUE,
             all_vars |-> FindAllVariables(fs[variables_tf], 1),
             defaulted |-> Defaulted(fs[variables_tf])]

-----------------------------------------------------------------------------
(* _validate_tfvars_against_variables                                      *)

\* sorted() of a set of variable names; the names of the model are single
\* tokens, ordered as their text is.
NameOrder == <<"a", "b", "c", "default", "variable">>
NameRank(n) == CHOOSE i \in 1..Len(NameOrder) : NameOrder[i] = n[1]

\* The names from the greatest to the least.
RECURSIVE sorted_descending(_)
sorted_descending(S) ==
    IF S = {} THEN <<>>
    ELSE LET greatest == CHOOSE n \in S : \A m \in S : NameRank(n) >= NameRank(m)
         IN <<greatest>> \o sorted_descending(S \ {greatest})

RECURSIVE sorted(_)
sorted(S) ==
    IF S = {} THEN <<>>
    ELSE LET least == CHOOSE n \in S : \A m \in S : NameRank(n) <= NameRank(m)
         IN <<least>> \o sorted(S \ {least})

\* Extra keys taken against the required names instead of all the names.
ExtraKeysAgainstRequired(yaml_keys, all_vars, required_vars) ==
    yaml_keys \ required_vars

\* extra = yaml_keys - all_vars
ExtraKeys(yaml_keys, all_vars, required_vars) == yaml_keys \ all_vars

\* The body of the validator after the parse returned p.
ValidateAgainst(p, infra_path, t) ==
    LET required_vars == p.all_vars \ p.defaulted
        yaml_keys == DictKeySet(t.variables)
        missing == required_vars \ yaml_keys
        extra == ExtraKeys(yaml_keys, p.all_vars, required_vars)
        errors ==
            (IF missing # {}
             THEN <<[env |-> t.env, category |-> "missing required variables",
                     names |-> sorted(missing)]>>
             ELSE <<>>)
            \o
            (IF extra # {}
             THEN <<[env |-> t.env, category |-> "extra keys not in variables.tf",
                     names |-> sorted(extra)]>>
             ELSE <<>>)
    IN IF errors # <<>>
       THEN Raised("ValueError", "tfvars in infra.yaml do not match",
                   [path |-> PathJoin(infra_path, <<"variables.tf">>),
                    errors |-> errors])
       ELSE [raised |-> FALSE, returned |-> TRUE]

ValidateParsed(p, infra_path, t) ==
    IF p.raised THEN p ELSE ValidateAgainst(p, infra_path, t)

validate_tfvars_against_variables(fs, infra_path, t) ==
    ValidateParsed(parse_variables_tf(fs, infra_path), infra_path, t)

-----------------------------------------------------------------------------
(* Declarations files: a variables.tf is written from a list of            *)
(* declarations, each a variable name and the shape of its body.           *)

DeclNameList == <<<<"a">>, <<"b">>, <<"c">>>>
DeclNames == Range(DeclNameList)

QuotedX == <<"\"", "x", "\"">>
Indent == <<" ", " ">>

\* The bodies, between the braces of the declaration.
DeclBody(shape) ==
    CASE shape = "empty" -> <<>>
         \* variable "a" { default = "x" }
      [] shape = "inline_default" ->
            <<" ", "default", " ", "=", " ">> \o QuotedX \o <<" ">>
         \*   default = "x"
      [] shape = "default" ->
            <<"\n">> \o Indent \o <<"default", " ", "=", " ">> \o QuotedX \o <<"\n">>
         \*   type = string
      [] shape = "type" ->
            <<"\n">> \o Indent \o <<"type", " ", "=", " ", "string", "\n">>
         \*   type = string
         \*   default = "x"
      [] shape = "type_default" ->
            <<"\n">> \o Indent \o <<"type", " ", "=", " ", "string", "\n">>
            \o Indent \o <<"default", " ", "=", " ">> \o QuotedX \o <<"\n">>
         \*   default = {
         \*     k = "v"
         \*   }
      [] shape = "map_default" ->
            <<"\n">> \o Indent \o <<"default", " ", "=", " ", "{", "\n">>
            \o Indent \o Indent \o <<"k", " ", "=", " ", "\"", "v", "\"", "\n">>
            \o Indent \o <<"}", "\n">>
         \*   validation {
         \*     condition = true
         \*   }
         \*   default = "x"
      [] shape = "block_then_default" ->
            <<"\n">> \o Indent \o <<"validation", " ", "{", "\n">>
            \o Indent \o Indent \o <<"condition", " ", "=", " ", "true", "\n">>
            \o Indent \o <<"}", "\n">>
            \o Indent \o <<"default", " ", "=", " ">> \o QuotedX \o <<"\n">>
         \*   type = object({
         \*     default = string
         \*   })
      [] shape = "nested_default_only" ->
            <<"\n">> \o Indent \o <<"type", " ", "=", " ", "object", "(", "{", "\n">>
            \o Indent \o Indent \o <<"default", " ", "=", " ", "string", "\n">>
            \o Indent \o <<"}", ")", "\n">>

Shapes == {"empty", "inline_default", "default", "type", "type_default",
           "map_default", "block_then_default", "nested_default_only"}

\* The shapes whose declaration assigns the variable a default (an
\* assignment to default in the declaration's own block).
ShapesWithDefault == {"inline_default", "default", "type_default", "map_default",
                      "block_then_default"}

\* The shapes with a brace-delimited block inside the declaration.
ShapesWithNesting == {"map_default", "block_then_default", "nested_default_only"}

RenderDecl(d) ==
    <<"variable", " ", "\"">> \o d.name \o <<"\"", " ", "{">>
    \o DeclBody(d.shape) \o <<"}", "\n">>

RECURSIVE RenderDecls(_)
RenderDecls(ds) ==
    IF ds = <<>> THEN <<>> ELSE RenderDecl(Head(ds)) \o RenderDecls(Tail(ds))

\* The index, in RenderDecls(ds), of the brace that closes declaration k.
ClosingBraceOf(ds, k) == Len(RenderDecls(SubSeq(ds, 1, k))) - 1

\* The lists of at most MaxDecls declarations, of any shapes: the k-th
\* declaration of a file declares the k-th name.
DeclLists ==
    UNION {{[i \in 1..n |-> [name |-> DeclNameList[i], shape |-> sh[i]]] :
                sh \in [1..n -> Shapes]} :
           n \in 0..MaxDecls}

-----------------------------------------------------------------------------
(* Values of a variable set: a YAML scalar, list or mapping.               *)

StrValue(s) == [type |-> "str", value |-> s]
IntValue(n) == [type |-> "int", value |-> n]
BoolValue(b) == [type |-> "bool", value |-> b]
ListValue(items) == [type |-> "list", value |-> items]
DictValue(pairs) == [type |-> "dict", value |-> pairs]

TfVars(env, variables) == [env |-> env, variables |-> variables]

-----------------------------------------------------------------------------
(* _format_tfvars_value and _generate_tfvars_files.  The text written is a *)
(* sequence of tokens: a word, or one punctuation or whitespace character. *)

\* str(value) with the booleans in lower case.
PyStrLowerBool(v) ==
    CASE v.type = "str" -> v.value
      [] v.type = "bool" -> IF v.value THEN <<"true">> ELSE <<"false">>
      [] v.type = "int" -> <<ToString(v.value)>>

\* str(value) of a scalar, as the tokens of its text; the text of a string
\* is the string itself, whatever characters it holds.
PyStr(v) ==
    CASE v.type = "str" -> v.value
      [] v.type = "bool" -> IF v.value THEN <<"True">> ELSE <<"False">>
      [] v.type = "int" -> <<ToString(v.value)>>

\* sep.join(parts)
RECURSIVE Join(_, _)
Join(sep, parts) ==
    IF parts = <<>> THEN <<>>
    ELSE IF Len(parts) = 1 THEN parts[1]
         ELSE parts[1] \o sep \o Join(sep, Tail(parts))

\* f'"{text}"'
Quoted(text) == <<"\"">> \o text \o <<"\"">>

format_tfvars_value(value) ==
    IF value.type = "list"
    THEN LET items == Join(<<",", "\n">>,
                           [i \in 1..Len(value.value) |->
                                <<" ", " ">> \o Quoted(PyStr(value.value[i]))])
         IN <<"[", "\n">> \o items \o <<",", "\n", "]">>
    ELSE IF value.type = "dict"
    THEN LET items == Join(<<"\n">>,
                           [i \in 1..Len(value.value) |->
                                <<" ", " ">> \o Quoted(PyStr(value.value[i][1]))
                                \o <<" ", "=", " ">> \o Quoted(PyStr(value.value[i][2]))])
         IN <<"{", "\n">> \o items \o <<"\n", "}">>
    ELSE Quoted(PyStr(value))

\* The text _generate_tfvars_files writes for a variable set.
TfvarsText(variables) ==
    Join(<<"\n">>, [i \in 1..Len(variables) |->
                        variables[i][1] \o <<" ", "=", " ">>
                        \o format_tfvars_value(variables[i][2])])
    \o <<"\n">>

\* The file named after the environment as it is written.
TfvarsFileNameAsGiven(env) == env \o <<".tfvars">>

\* f"{tv.env.lower()}.tfvars"
TfvarsFileName(env) == lower(env) \o <<".tfvars">>

TfvarsPath(infra_path, env) == PathJoin(infra_path, TfvarsFileName(env))

\* A write that adds the text to what the file holds.
AppendText(fs, path, text) ==
    (path :> ((IF path \in DOMAIN fs THEN fs[path] ELSE <<>>) \o text)) @@ fs

\* Path.write_text: the file system with the file (re)written.
WriteText(fs, path, text) == (path :> text) @@ fs

\* A check that takes every directory to exist.
PathExistsAlways(ds, path) == TRUE

\* infra_path.exists()
PathExists(ds, path) == path \in ds

\* What _generate_tfvars_files raises, or the file it writes.
generate_tfvars_files(fs, ds, infra_path, t) ==
    IF ~PathExists(ds, infra_path)
    THEN Raised("FileNotFoundError", "infra directory not found", [path |-> infra_path])
    ELSE [raised |-> FALSE, returned |-> TRUE,
          path |-> TfvarsPath(infra_path, t.env),
          text |-> TfvarsText(t.variables)]

-----------------------------------------------------------------------------
(* InfraConfig and its lookups.                                            *)

None == "None"

EnvConfig(env, hosted_on, aws_profile, gcp_project_id, infra_dir) ==
    [env |-> env, hosted_on |-> hosted_on, aws_profile |-> aws_profile,
     gcp_project_id |-> gcp_project_id, infra_dir |-> infra_dir]

BackendBucket(env, hosted_on, bucket_name, region) ==
    [env |-> env, hosted_on |-> hosted_on, bucket_name |-> bucket_name,
     region |-> region]

InfraConfig(es, bs, ts, project_root) ==
    [envs |-> es, backend_buckets |-> bs, tfvars |-> ts,
     project_root |-> project_root]

\* A comparison that is case-sensitive.
SameEnvExactly(a, b) == a = b

\* The comparison of the three lookups: e.env.upper() == env.upper().
SameEnv(a, b) == upper(a) = upper(b)

\* A lookup that returns an empty result when nothing matches.
FirstMatchOrEmpty(entries, env, what) ==
    LET hits == {i \in 1..Len(entries) : SameEnv(entries[i].env, env)}
    IN IF hits # {}
       THEN [raised |-> FALSE, returned |-> TRUE, value |-> entries[Min(hits)]]
       ELSE [raised |-> FALSE, returned |-> TRUE, value |-> <<>>]

\* The loop of a lookup over its list: the first entry that matches, or
\* ValueError with the requested key and the env of every entry.
FirstMatch(entries, env, what) ==
    LET hits == {i \in 1..Len(entries) : SameEnv(entries[i].env, env)}
    IN IF hits # {}
       THEN [raised |-> FALSE, returned |-> TRUE, value |-> entries[Min(hits)]]
       ELSE Raised("ValueError", what,
                   [key |-> env,
                    available |-> [i \in 1..Len(entries) |-> entries[i].env]])

get_env(cfg, env) == FirstMatch(cfg.envs, env, "No env configured for")

get_backend_bucket(cfg, env) ==
    FirstMatch(cfg.backend_buckets, env, "No backend bucket configured for env")

get_tfvars(cfg, env) == FirstMatch(cfg.tfvars, env, "No tfvars configured for env")

-----------------------------------------------------------------------------
(* load_infra_config, called with the project root.                        *)

InfraYamlPath == PathJoin(ProjectRoot, <<"infra.yaml">>)

Fail(error) ==
    /\ pc' = "failed"
    /\ outcome' = error

\* _read_infra_config
ReadInfraConfig ==
    /\ pc = "start"
    /\ IF InfraYamlPath \notin DOMAIN files
       THEN /\ Fail(Raised("FileNotFoundError", "infra.yaml not found",
                           [path |-> InfraYamlPath]))
            /\ UNCHANGED <<raw, reads>>
       ELSE /\ raw' = files[InfraYamlPath]
            /\ reads' = Append(reads, InfraYamlPath)
            /\ pc' = "sections"
            /\ UNCHANGED outcome
    /\ UNCHANGED <<files, dirs, envs, buckets, tfvars, idx, validated, writes,
                   config, parseVars, lookup, genVars, rootVars, runVars>>

\* The keys of `required`, in order, that the dict lacks.
MissingKeys(dict, required) == SelectSeq(required, LAMBDA key : ~DictHas(dict, key))

\* for section in ("envs", "backend_buckets")
CheckSections ==
    /\ pc = "sections"
    /\ LET missing == MissingKeys(raw, <<"envs", "backend_buckets">>)
       IN IF missing # <<>>
          THEN Fail(Raised("KeyError", "key not found",
                           [key |-> missing[1], path |-> InfraYamlPath]))
          ELSE pc' = "envs" /\ UNCHANGED outcome
    /\ UNCHANGED <<files, dirs, raw, envs, buckets, tfvars, idx, validated, writes,
                   reads, config, parseVars, lookup, genVars, rootVars, runVars>>

\* The first entry of a section that lacks a required key, with the first
\* key it lacks: 0 when every entry is complete.
FirstIncomplete(section, required) ==
    LET bad == {i \in 1..Len(section) : MissingKeys(section[i][2], required) # <<>>}
    IN IF bad = {} THEN 0 ELSE Min(bad)

\* An error that names the first required key whether or not it is the one
\* the entry lacks.
MissingFieldFirstRequired(section, required) ==
    LET i == FirstIncomplete(section, required)
    IN Raised("KeyError", "Missing",
              [key |-> required[1], env |-> section[i][1], path |-> InfraYamlPath])

MissingField(section, required) ==
    LET i == FirstIncomplete(section, required)
    IN Raised("KeyError", "Missing",
              [key |-> MissingKeys(section[i][2], required)[1],
               env |-> section[i][1], path |-> InfraYamlPath])

\* A get that gives the empty string for a key the dict lacks.
DictGetOrEmpty(d, k) == IF DictHas(d, k) THEN DictGet(d, k) ELSE ""

\* dict.get(key)
DictGetOrNone(d, k) == IF DictHas(d, k) THEN DictGet(d, k) ELSE None

\* for env, values in raw["envs"].items()
BuildEnvs ==
    /\ pc = "envs"
    /\ LET section == DictGet(raw, "envs")
           required == <<"hosted_on", "infra_dir">>
       IN IF FirstIncomplete(section, required) # 0
          THEN Fail(MissingField(section, required)) /\ UNCHANGED envs
          ELSE /\ envs' = [i \in 1..Len(section) |->
                            EnvConfig(section[i][1],
                                      DictGet(section[i][2], "hosted_on"),
                                      DictGetOrNone(section[i][2], "aws_profile"),
                                      DictGetOrNone(section[i][2], "gcp_project_id"),
                                      DictGet(section[i][2], "infra_dir"))]
               /\ pc' = "buckets"
               /\ UNCHANGED outcome
    /\ UNCHANGED <<files, dirs, raw, buckets, tfvars, idx, validated, writes, reads,
                   config, parseVars, lookup, genVars, rootVars, runVars>>

\* for env, values in raw["backend_buckets"].items()
BuildBuckets ==
    /\ pc = "buckets"
    /\ LET section == DictGet(raw, "backend_buckets")
           required == <<"hosted_on", "bucket_name">>
       IN IF FirstIncomplete(section, required) # 0
          THEN Fail(MissingField(section, required)) /\ UNCHANGED buckets
          ELSE /\ buckets' = [i \in 1..Len(section) |->
                                BackendBucket(section[i][1],
                                              DictGet(section[i][2], "hosted_on"),
                                              DictGet(section[i][2], "bucket_name"),
                                              DictGetOrNone(section[i][2], "region"))]
               /\ pc' = "tfvars"
               /\ UNCHANGED outcome
    /\ UNCHANGED <<files, dirs, raw, envs, tfvars, idx, validated, writes, reads,
                   config, parseVars, lookup, genVars, rootVars, runVars>>

\* A comparison that accepts a tfvars section with environments missing.
TfvarsKeysSubset(env_names, tfvars_keys) == tfvars_keys \subseteq env_names

\* A comparison that accepts a tfvars section with environments added.
TfvarsKeysSuperset(env_names, tfvars_keys) == env_names \subseteq tfvars_keys

\* env_names != tfvars_keys, negated.
TfvarsKeysMatch(env_names, tfvars_keys) == env_names = tfvars_keys

\* if "tfvars" in raw: ... ; the list of TfVars is built.
BuildTfvars ==
    /\ pc = "tfvars"
    /\ IF DictHas(raw, "tfvars")
       THEN LET section == DictGet(raw, "tfvars")
                env_names == {envs[i].env : i \in 1..Len(envs)}
                tfvars_keys == DictKeySet(section)
            IN IF ~TfvarsKeysMatch(env_names, tfvars_keys)
               THEN /\ Fail(Raised("KeyError", "tfvars keys do not match envs keys",
                                   [tfvars_keys |-> tfvars_keys, env_names |-> env_names,
                                    path |-> InfraYamlPath]))
                    /\ UNCHANGED <<tfvars, idx>>
               ELSE /\ tfvars' = [i \in 1..Len(section) |->
                                    TfVars(section[i][1], section[i][2])]
                    /\ idx' = 1
                    /\ pc' = "loop"
                    /\ UNCHANGED outcome
       ELSE /\ tfvars' = <<>>
            /\ idx' = 1
            /\ pc' = "loop"
            /\ UNCHANGED outcome
    /\ UNCHANGED <<files, dirs, raw, envs, buckets, validated, writes, reads,
                   config, parseVars, lookup, genVars, rootVars, runVars>>

\* config = InfraConfig(envs=envs, backend_buckets=buckets, tfvars=tfvars, ...)
LoadedConfig == InfraConfig(envs, buckets, tfvars, ProjectRoot)

\* The directory the loop resolves for a variable set.
InfraPathOf(env_config) == PathJoin(ProjectRoot, env_config.infra_dir)

\* _validate_tfvars_against_variables(infra_path, tv) has raised or returned.
Validated(infra_path, result) ==
    /\ reads' = IF PathJoin(infra_path, <<"variables.tf">>) \in DOMAIN files
                THEN Append(reads, PathJoin(infra_path, <<"variables.tf">>))
                ELSE reads
    /\ IF result.raised
       THEN Fail(result) /\ UNCHANGED validated
       ELSE /\ validated' = Append(validated,
                                   [env |-> tfvars[idx].env, infra_path |-> infra_path])
            /\ pc' = "generate"
            /\ UNCHANGED outcome

\* env_config = config.get_env(tv.env) has raised or returned.
ValidateIn(found) ==
    IF found.raised
    THEN Fail(found) /\ UNCHANGED <<validated, reads>>
    ELSE Validated(InfraPathOf(found.value),
                   validate_tfvars_against_variables(files, InfraPathOf(found.value),
                                                     tfvars[idx]))

\* env_config = config.get_env(tv.env); _validate_tfvars_against_variables(...)
ValidateNext ==
    /\ pc = "loop"
    /\ idx <= Len(tfvars)
    /\ ValidateIn(get_env(LoadedConfig, tfvars[idx].env))
    /\ UNCHANGED <<files, dirs, raw, envs, buckets, tfvars, idx, writes,
                   config, parseVars, lookup, genVars, rootVars, runVars>>

\* _generate_tfvars_files(infra_path, tv) has raised or returned.
Generated(result) ==
    IF result.raised
    THEN Fail(result) /\ UNCHANGED <<files, writes, idx>>
    ELSE /\ files' = WriteText(files, result.path, result.text)
         /\ writes' = Append(writes, [env |-> tfvars[idx].env, path |-> result.path,
                                      text |-> result.text])
         /\ idx' = idx + 1
         /\ pc' = "loop"
         /\ UNCHANGED outcome

\* _generate_tfvars_files(infra_path, tv), and the loop moves on.
GenerateNext ==
    /\ pc = "generate"
    /\ Generated(generate_tfvars_files(
            files, dirs, InfraPathOf(get_env(LoadedConfig, tfvars[idx].env).value),
            tfvars[idx]))
    /\ UNCHANGED <<dirs, raw, envs, buckets, tfvars, validated, reads,
                   config, parseVars, lookup, genVars, rootVars, runVars>>

\* return config
Return ==
    /\ pc = "loop"
    /\ idx > Len(tfvars)
    /\ pc' = "done"
    /\ outcome' = [raised |-> FALSE, returned |-> TRUE, value |-> LoadedConfig]
    /\ config' = LoadedConfig
    /\ UNCHANGED <<files, dirs, raw, envs, buckets, tfvars, idx, validated, writes,
                   reads, parseVars, lookup, genVars, rootVars, runVars>>

-----------------------------------------------------------------------------
(* The parser and the validator on their own: one directory, whose         *)
(* variables.tf (if any) is written from a list of declarations, and one   *)
(* TfVars.                                                                 *)

Dev == <<"d", "e", "v">>
InfraA == PathJoin(ProjectRoot, "infra/a")

NoFiles == [path \in {} |-> <<>>]

\* A variable set with the given keys.
VariablesOf(keys) == [i \in 1..Len(keys) |-> <<keys[i], StrValue(<<"x">>)>>]

IdleLoad ==
    /\ raw = <<>>
    /\ pc = "idle"
    /\ envs = <<>>
    /\ buckets = <<>>
    /\ tfvars = <<>>
    /\ idx = 0
    /\ validated = <<>>
    /\ writes = <<>>
    /\ reads = <<>>
    /\ outcome = Pending

NoConfig == [envs |-> <<>>, backend_buckets |-> <<>>, tfvars |-> <<>>,
             project_root |-> ProjectRoot]

IdleLookup ==
    /\ config = NoConfig
    /\ lookup = Pending

IdleRoot ==
    /\ cwd = ProjectRoot
    /\ root_arg = [given |-> TRUE, absolute |-> TRUE, parts |-> ProjectRoot]
    /\ resolved = Pending
    /\ descriptor = Pending

IdleRun ==
    /\ given_env = EnvConfig(Dev, <<"G", "C", "P">>, None, "proj", "infra")
    /\ given_bucket = BackendBucket(Dev, <<"G", "C", "P">>, "bucket", None)
    /\ commands = <<>>
    /\ called = Pending

IdleGen ==
    /\ fmt_value = StrValue(<<>>)
    /\ formatted = Pending
    /\ gen_tv = TfVars(Dev, <<>>)
    /\ generated = <<>>

IdleParse ==
    /\ decls = <<>>
    /\ tv = TfVars(Dev, <<>>)
    /\ parsed = Pending
    /\ verdict = Pending

InitParse ==
    /\ decls \in DeclLists
    /\ \E present \in BOOLEAN :
        /\ ~present => decls = <<>>
        /\ files = IF present
                   THEN PathJoin(InfraA, <<"variables.tf">>) :> RenderDecls(decls)
                   ELSE NoFiles
    /\ dirs = {InfraA}
    /\ \E keys \in SUBSET DeclNames : tv = TfVars(Dev, VariablesOf(sorted(keys)))
    /\ parsed = Pending
    /\ verdict = Pending
    /\ IdleLoad
    /\ IdleLookup
    /\ IdleGen
    /\ IdleRoot
    /\ IdleRun

ParseVariablesTf ==
    /\ parsed = Pending
    /\ parsed' = parse_variables_tf(files, InfraA)
    /\ UNCHANGED <<files, dirs, decls, tv, verdict, loadVars, lookupVars, genVars, rootVars, runVars>>

ValidateTfvars ==
    /\ parsed # Pending
    /\ verdict = Pending
    /\ verdict' = validate_tfvars_against_variables(files, InfraA, tv)
    /\ UNCHANGED <<files, dirs, decls, tv, parsed, loadVars, lookupVars, genVars, rootVars, runVars>>

NextParse == ParseVariablesTf \/ ValidateTfvars

SpecParse == InitParse /\ [][NextParse]_vars

-----------------------------------------------------------------------------
(* Properties of the parser and the validator (under SpecParse).           *)

DeclaredNames == {decls[k].name : k \in 1..Len(decls)}
NamesWithDefault == {decls[k].name : k \in {j \in 1..Len(decls) :
                                        decls[j].shape \in ShapesWithDefault}}
VariablesTf == PathJoin(InfraA, <<"variables.tf">>)

\* The names the validator's error reports as extra keys.
ReportedExtra(v) ==
    IF v.raised
    THEN UNION {Range(v.detail.errors[i].names) :
                    i \in {j \in 1..Len(v.detail.errors) :
                        v.detail.errors[j].category = "extra keys not in variables.tf"}}
    ELSE {}

ValidationAgrees(v, p, keys) ==
    /\ v.returned <=>
        (/\ (p.all_vars \ p.defaulted) \subseteq keys
         /\ keys \subseteq p.all_vars)
    /\ ReportedExtra(v) = keys \ DeclaredNames

\* C2: validation against a declarations file that exists succeeds exactly
\* when the required names (declared minus defaulted, as the parser returns
\* them) are all provided and every provided key is declared; a declared
\* key is never reported as extra and an undeclared key always is.
C2_ValidationIffNoMissingNoExtra ==
    (verdict # Pending /\ VariablesTf \in DOMAIN files) =>
        ValidationAgrees(verdict, parsed, DictKeySet(tv.variables))

\* A validation that passed with a defaulted key provided.
C2_Witness ==
    /\ verdict # Pending /\ verdict.returned
    /\ DictKeySet(tv.variables) \cap NamesWithDefault # {}
    /\ DeclaredNames \ DictKeySet(tv.variables) # {}

BlocksMatchDeclarations(bs) ==
    /\ Len(bs) = Len(decls)
    /\ \A k \in 1..Len(decls) :
        /\ bs[k].name = decls[k].name
        /\ bs[k].close = ClosingBraceOf(decls, k)
        /\ decls[k].shape = "map_default" => decls[k].name \in parsed.defaulted

\* C6: the body of every declaration ends at the closing brace that matches
\* its opening brace, also when the body holds a nested block, and a
\* declaration whose default is a brace-delimited structure has a default.
C6_BodyEndsAtMatchingBrace ==
    (parsed # Pending /\ parsed.returned) =>
        BlocksMatchDeclarations(VariableBlocks(files[VariablesTf]))

\* A parsed file with a declaration whose default follows a nested block
\* and one whose default is a map.
C6_Witness ==
    /\ parsed # Pending /\ parsed.returned
    /\ \E j, k \in 1..Len(decls) :
        decls[j].shape = "block_then_default" /\ decls[k].shape = "map_default"

\* C7: a variable is marked as having a default only when its declaration
\* assigns default in its own block (brace depth 1).
C7_DefaultOnlyAtDepthOne ==
    (parsed # Pending /\ parsed.returned) =>
        \A k \in 1..Len(decls) :
            decls[k].name \in parsed.defaulted => decls[k].shape \in ShapesWithDefault

\* C8: for a declarations file that exists the parser returns the set of
\* the declared names and the set of those whose declaration has a default.
C8_ParserReturnsDeclaredAndDefaulted ==
    (parsed # Pending /\ parsed.returned) =>
        /\ parsed.all_vars = DeclaredNames
        /\ parsed.defaulted = NamesWithDefault

-----------------------------------------------------------------------------
(* The descriptors and file systems load_infra_config is run on.           *)

DEV == <<"D", "E", "V">>
Prod == <<"p", "r", "o", "d">>
Stg == <<"s", "t", "g">>
EnvNames == {Dev, DEV, Prod}

InfraDirNames == {"infra/a", "infra/b"}
InfraB == PathJoin(ProjectRoot, "infra/b")

A == <<"a">>
B == <<"b">>
C == <<"c">>

\* Two declarations files: both declare a and b; b has a default in the
\* first only.
FileA == RenderDecls(<<[name |-> A, shape |-> "empty"],
                       [name |-> B, shape |-> "inline_default"]>>)
FileB == RenderDecls(<<[name |-> A, shape |-> "type"],
                       [name |-> B, shape |-> "empty"]>>)

\* Three variable sets: the first passes against both files' required a
\* only with FileA, the second passes against both, the third against none.
VarsA == <<<<A, StrValue(<<"x">>)>>>>
VarsAB == <<<<A, StrValue(<<"y">>)>>, <<B, StrValue(<<"x">>)>>>>
VarsBC == <<<<B, StrValue(<<"x">>)>>, <<C, StrValue(<<"y">>)>>>>
VarSetChoices == {VarsA, VarsAB, VarsBC}

Reverse(s) == [i \in 1..Len(s) |-> s[Len(s) + 1 - i]]
RemoveKey(dict, key) == SelectSeq(dict, LAMBDA pair : pair[1] # key)

EnvEntry(dir) ==
    <<<<"hosted_on", "GCP">>, <<"gcp_project_id", "proj">>, <<"infra_dir", dir>>>>
BucketEntry == <<<<"hosted_on", "GCP">>, <<"bucket_name", "bucket">>>>

\* The tfvars sections tried with the environments ns: every choice of
\* variable sets under the same keys, in the same or the reverse order, and
\* key lists with a name missing, added, or replaced.
TfvarsSections(ns) ==
    {[i \in 1..Len(ks) |-> <<ks[i], vs[i]>>] :
        ks \in {ns, Reverse(ns)}, vs \in [1..Len(ns) -> VarSetChoices]}
    \cup
    {[i \in 1..Len(ks) |-> <<ks[i], VarsA>>] :
        ks \in {SubSeq(ns, 1, Len(ns) - 1), Append(ns, Stg),
                Append(SubSeq(ns, 1, Len(ns) - 1), Stg)} \ {ns}}

Defects == {"none", "no_infra_yaml", "no_envs", "no_backend_buckets",
            "env_no_hosted_on", "env_no_infra_dir",
            "bucket_no_hosted_on", "bucket_no_bucket_name"}

\* A defect removes a key from the last entry of a section.
WithoutInLast(section, key) ==
    [i \in 1..Len(section) |->
        IF i = Len(section) THEN <<section[i][1], RemoveKey(section[i][2], key)>>
        ELSE section[i]]

EnvsSection(ns, ds, defect) ==
    LET section == [i \in 1..Len(ns) |-> <<ns[i], EnvEntry(ds[i])>>]
    IN CASE defect = "env_no_hosted_on" -> WithoutInLast(section, "hosted_on")
         [] defect = "env_no_infra_dir" -> WithoutInLast(section, "infra_dir")
         [] OTHER -> section

BucketsSection(ns, defect) ==
    LET section == [i \in 1..Len(ns) |-> <<ns[i], BucketEntry>>]
    IN CASE defect = "bucket_no_hosted_on" -> WithoutInLast(section, "hosted_on")
         [] defect = "bucket_no_bucket_name" -> WithoutInLast(section, "bucket_name")
         [] OTHER -> section

Descriptor(ns, ds, has_tfvars, section, defect) ==
    (IF defect = "no_envs" THEN <<>> ELSE <<<<"envs", EnvsSection(ns, ds, defect)>>>>)
    \o (IF defect = "no_backend_buckets" THEN <<>>
        ELSE <<<<"backend_buckets", BucketsSection(ns, defect)>>>>)
    \o (IF has_tfvars THEN <<<<"tfvars", section>>>> ELSE <<>>)

\* The variables.tf of a directory: none, FileA or FileB.
VariablesTfChoices == {"none", "A", "B"}
VariablesTfFiles(infra_path, choice) ==
    CASE choice = "A" -> PathJoin(infra_path, <<"variables.tf">>) :> FileA
      [] choice = "B" -> PathJoin(infra_path, <<"variables.tf">>) :> FileB
      [] OTHER -> NoFiles

\* Files left by an earlier run: a tfvars file per environment name in
\* each directory.
OldText == <<"old">>
OldFiles(ns) ==
    [path \in {TfvarsPath(d, ns[i]) : d \in {InfraA, InfraB}, i \in 1..Len(ns)}
        |-> OldText]

\* The state load_infra_config starts in, the environments of the
\* descriptor being named by one of the lists given.
LoadInit(name_lists) ==
    /\ \E ns \in name_lists, defect \in Defects,
          has_tfvars \in BOOLEAN, old \in BOOLEAN,
          a \in VariablesTfChoices, b \in VariablesTfChoices :
        \E ds \in [1..Len(ns) -> InfraDirNames], section \in TfvarsSections(ns) :
            /\ ~has_tfvars => section = [i \in 1..Len(ns) |-> <<ns[i], VarsA>>]
            /\ defect # "none" =>
                /\ Len(ns) > 0
                /\ has_tfvars /\ ~old /\ a = "A" /\ b = "A"
                /\ section = [i \in 1..Len(ns) |-> <<ns[i], VarsA>>]
            /\ files =
                (IF defect = "no_infra_yaml" THEN NoFiles
                 ELSE InfraYamlPath :> Descriptor(ns, ds, has_tfvars, section, defect))
                @@ VariablesTfFiles(InfraA, a) @@ VariablesTfFiles(InfraB, b)
                @@ (IF old THEN OldFiles(ns) ELSE NoFiles)
    /\ dirs = {InfraA, InfraB}
    /\ raw = <<>>
    /\ pc = "start"
    /\ envs = <<>>
    /\ buckets = <<>>
    /\ tfvars = <<>>
    /\ idx = 0
    /\ validated = <<>>
    /\ writes = <<>>
    /\ reads = <<>>
    /\ outcome = Pending
    /\ IdleParse
    /\ IdleLookup
    /\ IdleGen
    /\ IdleRoot
    /\ IdleRun

\* The lists of at most MaxEnvs distinct environment names.
EnvNameLists == DistinctSeqs(EnvNames, MaxEnvs)

\* The lists in which no two names differ only in letter case.
CaseUnique(ns) == \A i, j \in 1..Len(ns) : upper(ns[i]) = upper(ns[j]) => i = j

Init == LoadInit(EnvNameLists)

InitCaseUnique == LoadInit({ns \in EnvNameLists : CaseUnique(ns)})

Next ==
    \/ ReadInfraConfig
    \/ CheckSections
    \/ BuildEnvs
    \/ BuildBuckets
    \/ BuildTfvars
    \/ ValidateNext
    \/ GenerateNext
    \/ Return

Spec == Init /\ [][Next]_vars

\* The loads of descriptors whose environment names are unique whatever
\* their case.
SpecCaseUnique == InitCaseUnique /\ [][Next]_vars

-----------------------------------------------------------------------------
(* Properties of load_infra_config (under Spec).                           *)

Loaded == raw # <<>>
HasSection(name) == Loaded /\ DictHas(raw, name)

\* The working directory the descriptor gives the environment of that name.
WorkingDirOf(env) ==
    PathJoin(ProjectRoot, DictGet(DictGet(DictGet(raw, "envs"), env), "infra_dir"))

\* C1: a failed load leaves either no variable file written or all of them.
C1_NoPartialSuccess ==
    pc = "failed" => (writes = <<>> \/ Len(writes) = Len(tfvars))

\* C3: with a tfvars section, the load goes past the comparison only if the
\* tfvars names equal the envs names as sets, and otherwise it fails with
\* an error that lists both sets.
C3_TfvarsNamesEqualEnvNames ==
    HasSection("tfvars") =>
        /\ pc \in {"loop", "generate", "done"} =>
                DictKeySet(DictGet(raw, "tfvars")) = DictKeySet(DictGet(raw, "envs"))
        /\ (/\ pc = "failed"
            /\ HasSection("envs")
            /\ DictKeySet(DictGet(raw, "tfvars")) # DictKeySet(DictGet(raw, "envs"))) =>
                /\ outcome.type = "KeyError"
                /\ outcome.what = "tfvars keys do not match envs keys"
                /\ outcome.detail.tfvars_keys = DictKeySet(DictGet(raw, "tfvars"))
                /\ outcome.detail.env_names = DictKeySet(DictGet(raw, "envs"))

\* The load failed on tfvars {stg} against envs {dev}.
C3_Witness ==
    /\ pc = "failed"
    /\ outcome.what = "tfvars keys do not match envs keys"
    /\ outcome.detail.tfvars_keys = {Stg}
    /\ outcome.detail.env_names = {Dev}

\* C4: every variable set is validated in, and written into, the working
\* directory of the environment of its own name, and is written only after
\* its validation returned.
C4_OwnWorkingDirectory ==
    /\ \A i \in 1..Len(validated) :
            validated[i].infra_path = WorkingDirOf(validated[i].env)
    /\ \A i \in 1..Len(writes) :
        /\ i <= Len(validated)
        /\ writes[i].env = validated[i].env
        /\ writes[i].path = TfvarsPath(WorkingDirOf(writes[i].env), writes[i].env)

\* C5: after a successful load the file <env-lower>.tfvars of every
\* variable set is in its environment's working directory and holds the
\* rendering of that set's variables.
C5_OneFilePerVariableSet ==
    pc = "done" =>
        \A i \in 1..Len(tfvars) :
            /\ TfvarsPath(WorkingDirOf(tfvars[i].env), tfvars[i].env) \in DOMAIN files
            /\ files[TfvarsPath(WorkingDirOf(tfvars[i].env), tfvars[i].env)]
                    = TfvarsText(tfvars[i].variables)

-----------------------------------------------------------------------------
(* The lookups on their own: any InfraConfig, one lookup.                  *)

DevMixed == <<"D", "e", "v">>
LookupNames == {Dev, DEV, DevMixed, Prod, Stg}

EnvConfigs(ns) ==
    [i \in 1..Len(ns) |-> EnvConfig(ns[i], "GCP", None, "proj", "infra/a")]
BackendBuckets(ns) ==
    [i \in 1..Len(ns) |-> BackendBucket(ns[i], "GCP", "bucket", None)]
TfVarsList(ns) == [i \in 1..Len(ns) |-> TfVars(ns[i], VarsA)]

InitLookup ==
    /\ \E es \in DistinctSeqs(EnvNames, MaxEnvs), bs \in DistinctSeqs(EnvNames, MaxEnvs),
          ts \in DistinctSeqs(EnvNames, MaxEnvs) :
        config = InfraConfig(EnvConfigs(es), BackendBuckets(bs), TfVarsList(ts),
                             ProjectRoot)
    /\ lookup = Pending
    /\ files = NoFiles
    /\ dirs = {}
    /\ IdleLoad
    /\ IdleParse
    /\ IdleGen
    /\ IdleRoot
    /\ IdleRun

Looked(method, env, result) ==
    [raised |-> result.raised, returned |-> result.returned, method |-> method,
     key |-> env, result |-> result]

GetEnv ==
    /\ lookup = Pending
    /\ \E env \in LookupNames : lookup' = Looked("get_env", env, get_env(config, env))
    /\ UNCHANGED <<files, dirs, config, parseVars, loadVars, genVars, rootVars, runVars>>

GetBackendBucket ==
    /\ lookup = Pending
    /\ \E env \in LookupNames :
        lookup' = Looked("get_backend_bucket", env, get_backend_bucket(config, env))
    /\ UNCHANGED <<files, dirs, config, parseVars, loadVars, genVars, rootVars, runVars>>

GetTfvars ==
    /\ lookup = Pending
    /\ \E env \in LookupNames :
        lookup' = Looked("get_tfvars", env, get_tfvars(config, env))
    /\ UNCHANGED <<files, dirs, config, parseVars, loadVars, genVars, rootVars, runVars>>

NextLookup == GetEnv \/ GetBackendBucket \/ GetTfvars

SpecLookup == InitLookup /\ [][NextLookup]_vars

-----------------------------------------------------------------------------
(* Properties of the lookups (under SpecLookup).                           *)

\* Two names that differ at most in the case of their letters.
DifferOnlyInCase(a, b) ==
    /\ Len(a) = Len(b)
    /\ \A i \in 1..Len(a) :
        \/ a[i] = b[i]
        \/ \E j \in 1..Len(LowerLetters) : {a[i], b[i]} = {LowerLetters[j], UpperLetters[j]}

\* The method of the last lookup, called with another name.
LookupAgain(env) ==
    CASE lookup.method = "get_env" -> get_env(config, env)
      [] lookup.method = "get_backend_bucket" -> get_backend_bucket(config, env)
      [] lookup.method = "get_tfvars" -> get_tfvars(config, env)

\* The list the method of the last lookup searches.
LookupList ==
    CASE lookup.method = "get_env" -> config.envs
      [] lookup.method = "get_backend_bucket" -> config.backend_buckets
      [] lookup.method = "get_tfvars" -> config.tfvars

SameResult(r1, r2) ==
    /\ r1.returned = r2.returned
    /\ r1.raised = r2.raised
    /\ r1.returned => r1.value = r2.value

\* C9: a lookup resolves any two names that differ only in letter case to
\* the same entry, or fails for both.
C9_LookupCaseInsensitive ==
    lookup # Pending =>
        \A other \in LookupNames :
            DifferOnlyInCase(lookup.key, other) =>
                SameResult(lookup.result, LookupAgain(other))

\* A lookup that found an entry under a name in another case.
C9_Witness ==
    /\ lookup # Pending
    /\ lookup.returned
    /\ lookup.result.value.env # lookup.key
    /\ lookup.key = DEV

\* C10: a lookup of a name that matches no entry raises an error carrying
\* the requested key and the names of all the entries of the list.
C10_LookupFailsLoudly ==
    (/\ lookup # Pending
     /\ \A i \in 1..Len(LookupList) : ~DifferOnlyInCase(LookupList[i].env, lookup.key)) =>
        /\ lookup.raised
        /\ lookup.result.type = "ValueError"
        /\ lookup.result.detail.key = lookup.key
        /\ lookup.result.detail.available
                = [i \in 1..Len(LookupList) |-> LookupList[i].env]

\* A failed lookup of stg in a list of two entries.
C10_Witness ==
    /\ lookup # Pending
    /\ lookup.raised
    /\ lookup.key = Stg
    /\ Len(lookup.result.detail.available) = 2

-----------------------------------------------------------------------------
(* Properties of load_infra_config on the required keys (under Spec).      *)

\* The entries of a section that lack one of the keys.
EntriesLacking(section, keys) ==
    {i \in 1..Len(section) : \E k \in Range(keys) : ~DictHas(section[i][2], k)}

EnvKeys == <<"hosted_on", "infra_dir">>
BucketKeys == <<"hosted_on", "bucket_name">>

BothSections == HasSection("envs") /\ HasSection("backend_buckets")
EnvsIncomplete == EntriesLacking(DictGet(raw, "envs"), EnvKeys) # {}
BucketsIncomplete == EntriesLacking(DictGet(raw, "backend_buckets"), BucketKeys) # {}

\* The load has failed with a KeyError and no InfraConfig was returned.
FailedWithKeyError(what) ==
    /\ pc = "failed"
    /\ outcome.raised
    /\ outcome.type = "KeyError"
    /\ outcome.what = what
    /\ outcome.detail.path = InfraYamlPath
    /\ config = NoConfig

\* The error names an entry of the section and a key that entry lacks.
NamesEntryAndKey(section, keys) ==
    /\ outcome.detail.key \in Range(keys)
    /\ \E i \in 1..Len(section) :
        /\ section[i][1] = outcome.detail.env
        /\ ~DictHas(section[i][2], outcome.detail.key)

\* C11: a descriptor that lacks a required key makes the load fail with an
\* error and return no InfraConfig: a missing envs or backend_buckets
\* section fails with an error naming the section and the file, a missing
\* hosted_on or infra_dir in an environment entry, or hosted_on or
\* bucket_name in a bucket entry, with an error naming the environment and
\* the key.
C11_MissingRequiredKeyIsFatal ==
    /\ (Loaded /\ ~BothSections) =>
        /\ pc # "done"
        /\ pc # "sections" =>
            /\ FailedWithKeyError("key not found")
            /\ outcome.detail.key \in {"envs", "backend_buckets"}
            /\ ~HasSection(outcome.detail.key)
    /\ (Loaded /\ BothSections /\ EnvsIncomplete) =>
        /\ pc # "done"
        /\ pc \notin {"sections", "envs"} =>
            /\ FailedWithKeyError("Missing")
            /\ NamesEntryAndKey(DictGet(raw, "envs"), EnvKeys)
    /\ (Loaded /\ BothSections /\ ~EnvsIncomplete /\ BucketsIncomplete) =>
        /\ pc # "done"
        /\ pc \notin {"sections", "envs", "buckets"} =>
            /\ FailedWithKeyError("Missing")
            /\ NamesEntryAndKey(DictGet(raw, "backend_buckets"), BucketKeys)

\* The load failed on the second of two buckets, which lacks bucket_name.
C11_Witness ==
    /\ pc = "failed"
    /\ outcome.what = "Missing"
    /\ outcome.detail.key = "bucket_name"
    /\ Len(DictGet(raw, "backend_buckets")) = 2
    /\ outcome.detail.env = DictGet(raw, "backend_buckets")[2][1]

\* The optional field of an entry, as the descriptor gives it.
OptionalField(entry, key) == IF DictHas(entry, key) THEN DictGet(entry, key) ELSE None

EnvCopied(e, pair) ==
    /\ e.env = pair[1]
    /\ e.hosted_on = DictGet(pair[2], "hosted_on")
    /\ e.infra_dir = DictGet(pair[2], "infra_dir")
    /\ e.aws_profile = OptionalField(pair[2], "aws_profile")
    /\ e.gcp_project_id = OptionalField(pair[2], "gcp_project_id")

BucketCopied(b, pair) ==
    /\ b.env = pair[1]
    /\ b.hosted_on = DictGet(pair[2], "hosted_on")
    /\ b.bucket_name = DictGet(pair[2], "bucket_name")
    /\ b.region = OptionalField(pair[2], "region")

ConfigCopied(c, env_section, bucket_section) ==
    /\ Len(c.envs) = Len(env_section)
    /\ \A i \in 1..Len(env_section) : EnvCopied(c.envs[i], env_section[i])
    /\ Len(c.backend_buckets) = Len(bucket_section)
    /\ \A i \in 1..Len(bucket_section) :
            BucketCopied(c.backend_buckets[i], bucket_section[i])
    /\ c.tfvars = <<>>
    /\ c.project_root = ProjectRoot

\* C12: a descriptor with every required key and no tfvars section never
\* makes the load fail, and the InfraConfig returned holds one EnvConfig per
\* envs entry and one BackendBucket per backend_buckets entry, in order,
\* every field copied from the entry and the absent optional fields None,
\* no TfVars, and the resolved root.
C12_LoadsDescriptorWithoutTfvars ==
    (/\ Loaded /\ BothSections /\ ~HasSection("tfvars")
     /\ ~EnvsIncomplete /\ ~BucketsIncomplete) =>
        /\ pc # "failed"
        /\ pc = "done" =>
            /\ outcome.returned
            /\ outcome.value = config
            /\ ConfigCopied(outcome.value, DictGet(raw, "envs"),
                            DictGet(raw, "backend_buckets"))

\* A load without tfvars returned two environments and two buckets.
C12_Witness ==
    /\ pc = "done"
    /\ ~HasSection("tfvars")
    /\ Len(outcome.value.envs) = 2
    /\ Len(outcome.value.backend_buckets) = 2
    /\ outcome.value.envs[2].aws_profile = None
    /\ outcome.value.envs[2].gcp_project_id = "proj"
    /\ outcome.value.backend_buckets[1].region = None

-----------------------------------------------------------------------------
(* Properties of the validator's error (under SpecParse).                  *)

\* The sequence lists exactly the names of the set, in ascending order.
ListsSorted(names, S) ==
    /\ Range(names) = S
    /\ Len(names) = Cardinality(S)
    /\ \A i \in 1..(Len(names) - 1) : NameRank(names[i]) < NameRank(names[i + 1])

\* One line of the error: the environment, the category and its names.
ErrorLine(line, category, S) ==
    /\ line.env = tv.env
    /\ line.category = category
    /\ ListsSorted(line.names, S)

ErrorEnumerates(errors, missing, extra) ==
    /\ Len(errors) = (IF missing # {} THEN 1 ELSE 0) + (IF extra # {} THEN 1 ELSE 0)
    /\ missing # {} => ErrorLine(errors[1], "missing required variables", missing)
    /\ extra # {} =>
            ErrorLine(errors[Len(errors)], "extra keys not in variables.tf", extra)

\* C13: a validation that fails against a declarations file that exists
\* fails with one ValueError that names the declarations file and, for each
\* category that is not empty (the missing required variables, the extra
\* keys), the environment and the names of the category in sorted order;
\* both categories are listed when both are non-empty.
C13_ValidationErrorListsBothSorted ==
    (/\ verdict # Pending /\ verdict.raised
     /\ VariablesTf \in DOMAIN files) =>
        /\ verdict.type = "ValueError"
        /\ verdict.detail.path = VariablesTf
        /\ ErrorEnumerates(verdict.detail.errors,
                           (parsed.all_vars \ parsed.defaulted)
                                \ DictKeySet(tv.variables),
                           DictKeySet(tv.variables) \ parsed.all_vars)

\* A validation failed with two missing variables and one extra key.
C13_Witness ==
    /\ verdict # Pending /\ verdict.raised
    /\ verdict.type = "ValueError"
    /\ Len(verdict.detail.errors) = 2
    /\ Len(verdict.detail.errors[1].names) = 2
    /\ Len(verdict.detail.errors[2].names) = 1

-----------------------------------------------------------------------------
(* _format_tfvars_value on its own: one value, formatted once.             *)

\* The strings: a word, a newline, and what they make up.
StrTokens == {"x", "\n"}
Strings == UNION {[1..n -> StrTokens] : n \in 0..MaxStrLen}

Scalars ==
    {StrValue(t) : t \in Strings}
    \cup {IntValue(n) : n \in {0, 42}}
    \cup {BoolValue(b) : b \in BOOLEAN}

Lists == UNION {{ListValue(items) : items \in [1..n -> Scalars]} : n \in 0..MaxItems}

\* The keys of a mapping, the k-th entry under the k-th key.
DictKeyList == <<StrValue(<<"k1">>), StrValue(<<"k2">>), StrValue(<<"k3">>)>>

Dicts ==
    UNION {{DictValue([i \in 1..n |-> <<DictKeyList[i], vs[i]>>]) :
                vs \in [1..n -> Scalars]} :
           n \in 0..Min({MaxItems, Len(DictKeyList)})}

FormatValues == Scalars \cup Lists \cup Dicts

InitFormat ==
    /\ fmt_value \in FormatValues
    /\ formatted = Pending
    /\ gen_tv = TfVars(Dev, <<>>)
    /\ generated = <<>>
    /\ files = NoFiles
    /\ dirs = {}
    /\ IdleLoad
    /\ IdleParse
    /\ IdleLookup
    /\ IdleRoot
    /\ IdleRun

FormatTfvarsValue ==
    /\ formatted = Pending
    /\ formatted' = [raised |-> FALSE, returned |-> TRUE,
                     text |-> format_tfvars_value(fmt_value)]
    /\ UNCHANGED <<files, dirs, fmt_value, gen_tv, generated, parseVars, loadVars,
                   lookupVars, rootVars, runVars>>

NextFormat == FormatTfvarsValue

SpecFormat == InitFormat /\ [][NextFormat]_vars

-----------------------------------------------------------------------------
(* Properties of _format_tfvars_value (under SpecFormat).                  *)

\* The lines of a text: what separates them is the newline.
RECURSIVE SplitLines(_)
SplitLines(text) ==
    IF \A i \in 1..Len(text) : text[i] # "\n" THEN <<text>>
    ELSE LET n == Min({i \in 1..Len(text) : text[i] = "\n"})
         IN <<SubSeq(text, 1, n - 1)>> \o SplitLines(SubSeq(text, n + 1, Len(text)))

\* The textual representation of a scalar: 42 is 42, true is True.
TextOf(v) ==
    CASE v.type = "str" -> v.value
      [] v.type = "int" -> <<ToString(v.value)>>
      [] v.type = "bool" -> IF v.value THEN <<"True">> ELSE <<"False">>

InQuotes(text) == <<"\"">> \o text \o <<"\"">>

\* `  "<element>",`
ListLine(item) == <<" ", " ">> \o InQuotes(TextOf(item)) \o <<",">>

\* `  "<key>" = "<value>"`
DictLine(pair) ==
    <<" ", " ">> \o InQuotes(TextOf(pair[1])) \o <<" ", "=", " ">>
    \o InQuotes(TextOf(pair[2]))

HasFormatted(type) == formatted # Pending /\ fmt_value.type = type

\* C16: a list of any length renders as the line `[`, one line
\* `  "<element>",` per element, the last included, and the line `]`.
C16_ListRendersOneLinePerElement ==
    HasFormatted("list") =>
        SplitLines(formatted.text)
            = <<(<<"[">>)>>
              \o [i \in 1..Len(fmt_value.value) |-> ListLine(fmt_value.value[i])]
              \o <<(<<"]">>)>>

\* C17: a mapping of any size renders as the line `{`, one line
\* `  "<key>" = "<value>"` per entry, without a comma, and the line `}`.
C17_DictRendersOneLinePerEntry ==
    HasFormatted("dict") =>
        SplitLines(formatted.text)
            = <<(<<"{">>)>>
              \o [i \in 1..Len(fmt_value.value) |-> DictLine(fmt_value.value[i])]
              \o <<(<<"}">>)>>

\* C18: a value that is neither a list nor a mapping renders as its textual
\* representation in double quotes: the integer 42 as "42", the boolean
\* true as "True".
C18_ScalarRendersQuotedText ==
    (formatted # Pending /\ fmt_value.type \notin {"list", "dict"}) =>
        /\ formatted.text = InQuotes(TextOf(fmt_value))
        /\ fmt_value = IntValue(42) => formatted.text = <<"\"", "42", "\"">>
        /\ fmt_value = BoolValue(TRUE) => formatted.text = <<"\"", "True", "\"">>

\* The boolean true has been formatted.
C18_Witness ==
    /\ formatted # Pending
    /\ fmt_value = BoolValue(TRUE)
    /\ formatted.text = <<"\"", "True", "\"">>

-----------------------------------------------------------------------------
(* _generate_tfvars_files on its own: one TfVars, generated into the       *)
(* directory infra/a, which exists or not, up to MaxCalls times.           *)

GenEnvNames == {Dev, DEV, Prod}

\* The values of the variable sets generated: scalars, one of them a string
\* of two lines, a list and a mapping.
GenScalars ==
    {StrValue(<<"x">>), StrValue(<<"x", "\n", "y">>), IntValue(42), BoolValue(TRUE)}
GenValues ==
    GenScalars
    \cup {ListValue(<<StrValue(<<"x">>), StrValue(<<"y">>)>>),
          DictValue(<<<<StrValue(<<"k1">>), StrValue(<<"x">>)>>>>)}

\* The variable sets: the k-th variable under the k-th name.
GenVariableSets ==
    UNION {{[i \in 1..n |-> <<DeclNameList[i], vs[i]>>] : vs \in [1..n -> GenValues]} :
           n \in 0..Min({MaxVars, Len(DeclNameList)})}

InitGen ==
    /\ \E env \in GenEnvNames, variables \in GenVariableSets,
          exists \in BOOLEAN, old \in BOOLEAN :
        /\ old => exists
        /\ gen_tv = TfVars(env, variables)
        /\ dirs = IF exists THEN {InfraA, InfraB} ELSE {InfraB}
        /\ files = (PathJoin(InfraB, <<"variables.tf">>) :> FileA)
                   @@ (IF old THEN PathJoin(InfraA, lower(env) \o <<".tfvars">>) :> OldText
                       ELSE NoFiles)
    /\ generated = <<>>
    /\ fmt_value = StrValue(<<>>)
    /\ formatted = Pending
    /\ IdleLoad
    /\ IdleParse
    /\ IdleLookup
    /\ IdleRoot
    /\ IdleRun

\* The call has raised or returned; what is kept of a call that returned is
\* the file written, whether it existed, and what it holds after the call.
GenerateReturned(result) ==
    IF result.raised
    THEN /\ generated' = Append(generated, result)
         /\ UNCHANGED files
    ELSE /\ files' = WriteText(files, result.path, result.text)
         /\ generated' =
                Append(generated,
                       [raised |-> FALSE, returned |-> TRUE,
                        path |-> result.path, text |-> result.text,
                        existed |-> result.path \in DOMAIN files,
                        content |-> WriteText(files, result.path, result.text)[result.path]])

GenerateTfvarsFiles ==
    /\ Len(generated) < MaxCalls
    /\ GenerateReturned(generate_tfvars_files(files, dirs, InfraA, gen_tv))
    /\ UNCHANGED <<dirs, fmt_value, formatted, gen_tv, parseVars, loadVars, lookupVars,
                   rootVars, runVars>>

NextGen == GenerateTfvarsFiles

SpecGen == InitGen /\ [][NextGen]_vars

-----------------------------------------------------------------------------
(* Properties of _generate_tfvars_files (under SpecGen).                   *)

\* The lines, newline-joined.
RECURSIVE NewlineJoined(_)
NewlineJoined(lines) ==
    IF lines = <<>> THEN <<>>
    ELSE lines[1] \o (IF Len(lines) > 1 THEN <<"\n">> \o NewlineJoined(Tail(lines))
                      ELSE <<>>)

\* `name = <formatted value>`
VariableLine(pair) == pair[1] \o <<" ", "=", " ">> \o format_tfvars_value(pair[2])

LastGenerated == generated[Len(generated)]

\* C14: into a directory that exists the generator writes the file named
\* after the environment in lower case with the extension .tfvars, holding
\* one `name = <formatted value>` line per variable in the set's order,
\* newline-joined with a trailing newline, whatever the file held before.
C14_GeneratorWritesRenderedFile ==
    (generated # <<>> /\ InfraA \in dirs) =>
        /\ LastGenerated.returned
        /\ LastGenerated.path = PathJoin(InfraA, lower(gen_tv.env) \o <<".tfvars">>)
        /\ LastGenerated.path \in DOMAIN files
        /\ files[LastGenerated.path]
            = NewlineJoined([i \in 1..Len(gen_tv.variables) |->
                                VariableLine(gen_tv.variables[i])])
              \o <<"\n">>

\* The file of DEV, which existed, was replaced by one of two lines.
C14_Witness ==
    /\ Len(generated) = 1
    /\ generated[1].returned
    /\ generated[1].existed
    /\ gen_tv.env = DEV
    /\ Len(gen_tv.variables) = 2
    /\ files[generated[1].path] # OldText

\* C15: a call of the generator on a directory that does not exist raises
\* FileNotFoundError (infra directory not found) at that directory, and
\* leaves the files and the directories as they were.
C15_MissingDirectoryIsAnError ==
    [][(InfraA \notin dirs /\ generated' # generated) =>
            /\ generated'[Len(generated')].raised
            /\ generated'[Len(generated')].type = "FileNotFoundError"
            /\ generated'[Len(generated')].what = "infra directory not found"
            /\ generated'[Len(generated')].detail.path = InfraA
            /\ files' = files
            /\ dirs' = dirs]_vars

\* The generator raised on the directory that does not exist.
C15_Witness ==
    /\ InfraA \notin dirs
    /\ generated # <<>>
    /\ generated[1].raised
    /\ Len(gen_tv.variables) > 0

\* The file read back line by line, each line as `key = "value"`: the key
\* and the text between the quotes, or Unparsable for a line of another
\* form; empty lines are skipped.
Unparsable == <<"unparsable">>

\* The first index at which ` = ` starts, 0 when there is none.
AssignAt(line) ==
    LET at == {n \in 1..(Len(line) - 2) :
                    line[n] = " " /\ line[n + 1] = "=" /\ line[n + 2] = " "}
    IN IF at = {} THEN 0 ELSE Min(at)

QuotedText(rest) ==
    IF Len(rest) >= 2 /\ rest[1] = "\"" /\ rest[Len(rest)] = "\""
    THEN SubSeq(rest, 2, Len(rest) - 1)
    ELSE Unparsable

ParsedAt(line, n) ==
    IF n = 0 \/ QuotedText(SubSeq(line, n + 3, Len(line))) = Unparsable
    THEN Unparsable
    ELSE <<SubSeq(line, 1, n - 1), QuotedText(SubSeq(line, n + 3, Len(line)))>>

ParseLine(line) == ParsedAt(line, AssignAt(line))

ParseLines(text) ==
    LET lines == SelectSeq(SplitLines(text), LAMBDA line : line # <<>>)
    IN [i \in 1..Len(lines) |-> ParseLine(lines[i])]

AllScalars(variables) ==
    \A i \in 1..Len(variables) : variables[i][2].type \notin {"list", "dict"}

\* C19: the file generated from a variable set whose values are all
\* scalars, read back line by line as `key = "value"`, gives the keys of
\* the set with the text of their values, in order.
C19_RoundTripScalars ==
    (generated # <<>> /\ LastGenerated.returned /\ AllScalars(gen_tv.variables)) =>
        ParseLines(files[LastGenerated.path])
            = [i \in 1..Len(gen_tv.variables) |->
                    <<gen_tv.variables[i][1], TextOf(gen_tv.variables[i][2])>>]

\* C20: a second generation of the same variable set into the same
\* directory leaves the file holding what it held after the first,
\* whatever it held before.
C20_GenerationIdempotent ==
    \A i \in 1..Len(generated) :
        (i > 1 /\ generated[i].returned) =>
            /\ generated[i - 1].returned
            /\ generated[i].path = generated[i - 1].path
            /\ generated[i].content = generated[i - 1].content
            /\ i = Len(generated) => files[generated[i].path] = generated[i].content

\* Two generations over a file left by an earlier run.
C20_Witness ==
    /\ Len(generated) = 2
    /\ generated[1].returned /\ generated[2].returned
    /\ generated[1].existed
    /\ generated[1].content # OldText
    /\ Len(gen_tv.variables) = 2

-----------------------------------------------------------------------------
(* The root of load_infra_config: _discover_project_root when no root is   *)
(* given, Path(project_root).resolve() otherwise, and _read_infra_config   *)
(* at the root resolved.  A directory is the sequence of the names from    *)
(* the root of the file system down to it.                                 *)

\* [current, *current.parents]: the directory, then its ancestors, the
\* nearest first.
Parents(current) == [i \in 1..(Len(current) + 1) |-> SubSeq(current, 1, Len(current) + 1 - i)]

\* (parent / "infra.yaml").exists()
HasDescriptor(fs, parent) == PathJoin(parent, <<"infra.yaml">>) \in DOMAIN fs

\* The last directory of the chain that holds the descriptor.
LastWithDescriptor(fs, chain) ==
    chain[CHOOSE i \in 1..Len(chain) :
            /\ HasDescriptor(fs, chain[i])
            /\ \A j \in 1..Len(chain) : HasDescriptor(fs, chain[j]) => j <= i]

\* for parent in [...]: if (parent / "infra.yaml").exists(): return parent
FirstWithDescriptor(fs, chain) ==
    chain[CHOOSE i \in 1..Len(chain) :
            /\ HasDescriptor(fs, chain[i])
            /\ \A j \in 1..Len(chain) : HasDescriptor(fs, chain[j]) => i <= j]

SearchChain(fs, chain) ==
    IF \E i \in 1..Len(chain) : HasDescriptor(fs, chain[i])
    THEN [raised |-> FALSE, returned |-> TRUE, value |-> FirstWithDescriptor(fs, chain)]
    ELSE Raised("FileNotFoundError",
                "Could not find infra.yaml in current directory or any parent",
                [file |-> <<"infra.yaml">>])

discover_project_root(fs, current) == SearchChain(fs, Parents(current))

\* No project_root given.
NoRoot == [given |-> FALSE, absolute |-> FALSE, parts |-> <<>>]

\* Path(project_root).resolve(): a relative path is taken from the current
\* directory.
Resolve(project_root, current) ==
    IF project_root.absolute THEN project_root.parts
    ELSE current \o project_root.parts

read_infra_config(fs, project_root) ==
    IF ~HasDescriptor(fs, project_root)
    THEN Raised("FileNotFoundError", "infra.yaml not found",
                [path |-> PathJoin(project_root, <<"infra.yaml">>),
                 project_root |-> project_root])
    ELSE [raised |-> FALSE, returned |-> TRUE,
          value |-> fs[PathJoin(project_root, <<"infra.yaml">>)]]

DirNames == {"p", "q"}
TreeDirs == UNION {[1..n -> DirNames] : n \in 0..MaxDepth}

RootArgs ==
    {NoRoot}
    \cup {[given |-> TRUE, absolute |-> TRUE, parts |-> d] : d \in TreeDirs}
    \cup {[given |-> TRUE, absolute |-> FALSE, parts |-> d] : d \in {<<>>, <<"p">>}}

EmptyDescriptor == <<<<"envs", <<>>>>, <<"backend_buckets", <<>>>>>>

\* At most two directories of the tree hold a descriptor.
InitRoot ==
    /\ cwd \in TreeDirs
    /\ root_arg \in RootArgs
    /\ \E holders \in {ds \in SUBSET TreeDirs : Cardinality(ds) <= 2} :
        files = [path \in {PathJoin(d, <<"infra.yaml">>) : d \in holders}
                    |-> EmptyDescriptor]
    /\ dirs = TreeDirs
    /\ resolved = Pending
    /\ descriptor = Pending
    /\ IdleLoad
    /\ IdleParse
    /\ IdleLookup
    /\ IdleGen
    /\ IdleRun

\* if project_root is None: ... else: ...
ResolveRoot ==
    /\ resolved = Pending
    /\ resolved' = IF ~root_arg.given
                   THEN discover_project_root(files, cwd)
                   ELSE [raised |-> FALSE, returned |-> TRUE,
                         value |-> Resolve(root_arg, cwd)]
    /\ UNCHANGED <<files, dirs, cwd, root_arg, descriptor, parseVars, loadVars,
                   lookupVars, genVars, runVars>>

\* raw = _read_infra_config(resolved_root)
ReadDescriptor ==
    /\ resolved.returned
    /\ descriptor = Pending
    /\ descriptor' = read_infra_config(files, resolved.value)
    /\ UNCHANGED <<files, dirs, cwd, root_arg, resolved, parseVars, loadVars,
                   lookupVars, genVars, runVars>>

NextRoot == ResolveRoot \/ ReadDescriptor

SpecRoot == InitRoot /\ [][NextRoot]_vars

-----------------------------------------------------------------------------
(* Properties of the root (under SpecRoot).                                *)

\* The error is a FileNotFoundError that carries the path.
NotFoundAt(error, path) ==
    /\ error.type = "FileNotFoundError"
    /\ "path" \in DOMAIN error.detail
    /\ error.detail.path = path

\* C21: every not-found error of the descriptor carries the absolute path
\* that was attempted: the search that finds no descriptor names a path of
\* the chain it tried, and the read at a given root names the infra.yaml
\* of that root.
C21_NotFoundCarriesPath ==
    /\ resolved.raised =>
            \E i \in 0..Len(cwd) :
                NotFoundAt(resolved, PathJoin(SubSeq(cwd, 1, i), <<"infra.yaml">>))
    /\ descriptor.raised =>
            NotFoundAt(descriptor, PathJoin(resolved.value, <<"infra.yaml">>))

\* The lengths of the ancestors of the current directory, itself included,
\* that hold a descriptor.
HolderDepths == {i \in 0..Len(cwd) : HasDescriptor(files, SubSeq(cwd, 1, i))}

Deepest(depths) == CHOOSE i \in depths : \A j \in depths : j <= i

\* C22: with no root given the root is the nearest directory, from the
\* current one upwards, that holds the descriptor, and the search fails
\* with a not-found error exactly when no directory of that chain holds
\* it; with a root given the root is that directory, resolved, and the
\* descriptor is read there or not at all.
C22_RootIsNearestOrGiven ==
    /\ (resolved # Pending /\ ~root_arg.given) =>
        IF HolderDepths = {}
        THEN resolved.raised /\ resolved.type = "FileNotFoundError"
        ELSE /\ resolved.returned
             /\ resolved.value = SubSeq(cwd, 1, Deepest(HolderDepths))
    /\ (resolved # Pending /\ root_arg.given) =>
        /\ resolved.returned
        /\ resolved.value = (IF root_arg.absolute THEN <<>> ELSE cwd) \o root_arg.parts
    /\ descriptor # Pending =>
        /\ descriptor.returned <=> HasDescriptor(files, resolved.value)
        /\ descriptor.raised <=> ~HasDescriptor(files, resolved.value)
        /\ ~root_arg.given => descriptor.returned

\* The search passed the current directory and stopped at its parent,
\* though the root of the tree holds a descriptor too.
C22_Witness ==
    /\ ~root_arg.given
    /\ resolved.returned
    /\ Len(cwd) = 2
    /\ resolved.value = SubSeq(cwd, 1, 1)
    /\ HolderDepths = {0, 1}
    /\ descriptor.returned

-----------------------------------------------------------------------------
(* cloud_provider.py and backend_bucket.py.  A command is the sequence of  *)
(* the pieces of its f-string; a function returns the commands it ran, or  *)
(* raises before it ran any.                                               *)

Ran(cmds) == [raised |-> FALSE, returned |-> TRUE, commands |-> cmds]

\* _set_aws_profile
set_aws_profile(aws_profile) ==
    <<(<<"export AWS_PROFILE=", aws_profile>>),
      (<<"aws sts get-caller-identity --profile ", aws_profile>>)>>

\* _set_google_project
set_google_project(gcp_project_id) ==
    <<(<<"gcloud config set project ", gcp_project_id>>)>>

\* The tag matched as it is written.
ProviderTagAsGiven(hosted_on) == hosted_on

\* match hosted_on.upper()
ProviderTag(hosted_on) == upper(hosted_on)

AWS == <<"A", "W", "S">>
GCP == <<"G", "C", "P">>

configure_cloud_provider(env_cfg) ==
    CASE ProviderTag(env_cfg.hosted_on) = AWS ->
            IF env_cfg.aws_profile = None
            THEN Raised("ValueError", "Cannot configure AWS: no aws_profile configured",
                        [env |-> env_cfg.env])
            ELSE Ran(set_aws_profile(env_cfg.aws_profile))
      [] ProviderTag(env_cfg.hosted_on) = GCP ->
            IF env_cfg.gcp_project_id = None
            THEN Raised("ValueError", "Cannot configure GCP: no gcp_project_id configured",
                        [env |-> env_cfg.env])
            ELSE Ran(set_google_project(env_cfg.gcp_project_id))
      [] OTHER ->
            Raised("NotImplementedError", "Unsupported hosted_on",
                   [hosted_on |-> env_cfg.hosted_on])

\* A location for every region given, us-east-1 included.
NeedsLocationAnyRegion(region) == region # None /\ region # ""

\* if region and region != "us-east-1"
NeedsLocation(region) == region # None /\ region # "" /\ region # "us-east-1"

\* _create_aws_bucket
create_aws_bucket(bucket_name, aws_profile, region) ==
    <<(<<"aws s3api create-bucket --bucket ", bucket_name, " --profile ", aws_profile>>
       \o (IF NeedsLocation(region)
           THEN <<" --create-bucket-configuration LocationConstraint=", region,
                  " --region ", region>>
           ELSE <<>>))>>

\* _create_gcp_bucket
create_gcp_bucket(bucket_name, gcp_project_id) ==
    <<(<<"gcloud config set project ", gcp_project_id>>),
      (<<"gsutil mb -p ", gcp_project_id, " gs://", bucket_name>>)>>

\* The provider taken from the environment's tag.
EnvProviderTag(env_cfg, bkt) == ProviderTag(env_cfg.hosted_on)

\* match bucket.hosted_on.upper()
BucketProviderTag(env_cfg, bkt) == ProviderTag(bkt.hosted_on)

create_backend_bucket(env_cfg, bkt) ==
    CASE BucketProviderTag(env_cfg, bkt) = AWS ->
            IF env_cfg.aws_profile = None
            THEN Raised("ValueError", "Cannot create AWS bucket: no aws_profile configured",
                        [env |-> env_cfg.env])
            ELSE Ran(create_aws_bucket(bkt.bucket_name, env_cfg.aws_profile, bkt.region))
      [] BucketProviderTag(env_cfg, bkt) = GCP ->
            IF env_cfg.gcp_project_id = None
            THEN Raised("ValueError",
                        "Cannot create GCP bucket: no gcp_project_id configured",
                        [env |-> env_cfg.env])
            ELSE Ran(create_gcp_bucket(bkt.bucket_name, env_cfg.gcp_project_id))
      [] OTHER ->
            Raised("NotImplementedError", "Unsupported hosted_on",
                   [hosted_on |-> bkt.hosted_on])

\* The tags: AWS and GCP in three cases each, and a provider not supported.
HostedOnTags ==
    {AWS, <<"a", "w", "s">>, <<"A", "w", "s">>, GCP, <<"g", "c", "p">>,
     <<"G", "c", "p">>, <<"a", "z", "u", "r", "e">>}

Regions == {None, "", "us-east-1", "eu-west-1"}

InitProvider ==
    /\ \E tag \in HostedOnTags, aws_profile \in {None, "prof"},
          gcp_project_id \in {None, "proj"} :
        given_env = EnvConfig(Dev, tag, aws_profile, gcp_project_id, "infra")
    /\ \E tag \in HostedOnTags, region \in Regions :
        given_bucket = BackendBucket(Dev, tag, "bucket", region)
    /\ commands = <<>>
    /\ called = Pending
    /\ files = NoFiles
    /\ dirs = {}
    /\ IdleLoad
    /\ IdleParse
    /\ IdleLookup
    /\ IdleGen
    /\ IdleRoot

\* The function has raised or returned, the commands it ran being run.
Called(method, result) ==
    /\ called' = [raised |-> result.raised, returned |-> result.returned,
                  method |-> method, result |-> result]
    /\ commands' = IF result.returned THEN commands \o result.commands ELSE commands

ConfigureCloudProvider ==
    /\ called = Pending
    /\ Called("configure_cloud_provider", configure_cloud_provider(given_env))
    /\ UNCHANGED <<files, dirs, given_env, given_bucket, parseVars, loadVars,
                   lookupVars, genVars, rootVars>>

CreateBackendBucket ==
    /\ called = Pending
    /\ Called("create_backend_bucket", create_backend_bucket(given_env, given_bucket))
    /\ UNCHANGED <<files, dirs, given_env, given_bucket, parseVars, loadVars,
                   lookupVars, genVars, rootVars>>

CreateAwsBucket ==
    /\ called = Pending
    /\ given_env.aws_profile # None
    /\ Called("_create_aws_bucket",
              Ran(create_aws_bucket(given_bucket.bucket_name, given_env.aws_profile,
                                    given_bucket.region)))
    /\ UNCHANGED <<files, dirs, given_env, given_bucket, parseVars, loadVars,
                   lookupVars, genVars, rootVars>>

NextProvider == ConfigureCloudProvider \/ CreateBackendBucket \/ CreateAwsBucket

SpecProvider == InitProvider /\ [][NextProvider]_vars

-----------------------------------------------------------------------------
(* Properties of the provider functions (under SpecProvider).              *)

\* The call raised the error, naming the environment, and ran no command.
RaisedForEnv(type, env) ==
    /\ called.raised
    /\ called.result.type = type
    /\ type = "ValueError" => called.result.detail.env = env
    /\ commands = <<>>

\* C23: configure_cloud_provider takes the provider from the environment's
\* hosted_on whatever its case: AWS with a profile runs export AWS_PROFILE
\* and then aws sts get-caller-identity, GCP with a project id runs gcloud
\* config set project, and nothing else; an identifier that is None raises
\* ValueError naming the environment, and any other tag
\* NotImplementedError, with no command run.
C23_ConfigureSelectsProvider ==
    (called # Pending /\ called.method = "configure_cloud_provider") =>
        IF DifferOnlyInCase(given_env.hosted_on, AWS)
        THEN IF given_env.aws_profile = None
             THEN RaisedForEnv("ValueError", given_env.env)
             ELSE /\ called.returned
                  /\ commands =
                        <<(<<"export AWS_PROFILE=", given_env.aws_profile>>),
                          (<<"aws sts get-caller-identity --profile ",
                             given_env.aws_profile>>)>>
        ELSE IF DifferOnlyInCase(given_env.hosted_on, GCP)
        THEN IF given_env.gcp_project_id = None
             THEN RaisedForEnv("ValueError", given_env.env)
             ELSE /\ called.returned
                  /\ commands =
                        <<(<<"gcloud config set project ", given_env.gcp_project_id>>)>>
        ELSE RaisedForEnv("NotImplementedError", given_env.env)

\* An environment tagged aws in lower case was configured.
C23_Witness ==
    /\ called # Pending /\ called.method = "configure_cloud_provider"
    /\ called.returned
    /\ given_env.hosted_on = <<"a", "w", "s">>
    /\ Len(commands) = 2

\* The first piece of each command run.
CommandHeads == [i \in 1..Len(commands) |-> commands[i][1]]

\* C24: create_backend_bucket takes the provider from the bucket's
\* hosted_on whatever its case and the credential from the environment:
\* AWS runs one s3api create-bucket with the environment's profile, GCP
\* runs gcloud config set project and then gsutil mb with the environment's
\* project id; a credential that is None raises ValueError, any other tag
\* NotImplementedError, with no command run.
C24_CreateBucketSelectsProvider ==
    (called # Pending /\ called.method = "create_backend_bucket") =>
        IF DifferOnlyInCase(given_bucket.hosted_on, AWS)
        THEN IF given_env.aws_profile = None
             THEN RaisedForEnv("ValueError", given_env.env)
             ELSE /\ called.returned
                  /\ CommandHeads = <<"aws s3api create-bucket --bucket ">>
                  /\ SubSeq(commands[1], 2, 4)
                        = <<given_bucket.bucket_name, " --profile ", given_env.aws_profile>>
        ELSE IF DifferOnlyInCase(given_bucket.hosted_on, GCP)
        THEN IF given_env.gcp_project_id = None
             THEN RaisedForEnv("ValueError", given_env.env)
             ELSE /\ called.returned
                  /\ commands =
                        <<(<<"gcloud config set project ", given_env.gcp_project_id>>),
                          (<<"gsutil mb -p ", given_env.gcp_project_id, " gs://",
                             given_bucket.bucket_name>>)>>
        ELSE RaisedForEnv("NotImplementedError", given_env.env)

\* A GCP bucket was created for an environment tagged AWS.
C24_Witness ==
    /\ called # Pending /\ called.method = "create_backend_bucket"
    /\ called.returned
    /\ given_bucket.hosted_on = <<"g", "c", "p">>
    /\ given_env.hosted_on = AWS
    /\ Len(commands) = 2

\* The piece, followed by the value, is part of the command.
HasFlag(command, flag, v) ==
    \E i \in 1..(Len(command) - 1) : command[i] = flag /\ command[i + 1] = v

HasPiece(command, piece) == \E i \in 1..Len(command) : command[i] = piece

LocationPiece == " --create-bucket-configuration LocationConstraint="

\* C25: the AWS create-bucket command always names the bucket and the
\* profile; it carries LocationConstraint=<region> and --region <region>
\* when a region is given that is not us-east-1, and neither of them with
\* no region or with us-east-1.
C25_AwsLocationOnlyOutsideUsEast1 ==
    (called # Pending /\ called.method = "_create_aws_bucket") =>
        /\ Len(commands) = 1
        /\ HasFlag(commands[1], "aws s3api create-bucket --bucket ",
                   given_bucket.bucket_name)
        /\ HasFlag(commands[1], " --profile ", given_env.aws_profile)
        /\ IF given_bucket.region \in {None, "", "us-east-1"}
           THEN /\ ~HasPiece(commands[1], LocationPiece)
                /\ ~HasPiece(commands[1], " --region ")
           ELSE /\ HasFlag(commands[1], LocationPiece, given_bucket.region)
                /\ HasFlag(commands[1], " --region ", given_bucket.region)

\* A bucket was created in us-east-1.
C25_Witness ==
    /\ called # Pending /\ called.method = "_create_aws_bucket"
    /\ given_bucket.region = "us-east-1"
    /\ Len(commands) = 1
    /\ Len(commands[1]) = 4

-----------------------------------------------------------------------------
(* Properties of the order of load_infra_config's steps (under Spec and    *)
(* SpecCaseUnique).                                                        *)

\* The file of a variable set: <env-lower>.tfvars in the working directory
\* of its environment.
FileOfSet(t) == TfvarsPath(WorkingDirOf(t.env), t.env)

\* The load failed while the variable set at idx was being validated.
FailedValidating ==
    /\ pc = "failed"
    /\ idx \in 1..Len(tfvars)
    /\ Len(validated) = idx - 1

\* The step writes a file.
WritesFile == files' # files \/ writes' # writes

\* C26: a file is written only for the variable set whose validation was
\* the last to return, and once a set has failed validation no write of
\* the load has touched its file.
C26_WriteOnlyAfterOwnValidation ==
    /\ [](FailedValidating =>
            \A i \in 1..Len(writes) : writes[i].path # FileOfSet(tfvars[idx]))
    /\ [][WritesFile =>
            /\ pc = "generate"
            /\ Len(validated) = idx
            /\ validated[idx].env = tfvars[idx].env
            /\ writes' = Append(writes, writes'[Len(writes')])
            /\ writes'[Len(writes')].env = tfvars[idx].env
            /\ \A path \in DOMAIN files :
                    path # writes'[Len(writes')].path => files'[path] = files[path]]_vars

\* The descriptor has a structural defect: a section or a required key of
\* an entry is missing, or the tfvars names are not the envs names.
StructuralDefect ==
    /\ Loaded
    /\ IF ~BothSections THEN TRUE
       ELSE IF EnvsIncomplete \/ BucketsIncomplete THEN TRUE
       ELSE /\ HasSection("tfvars")
            /\ DictKeySet(DictGet(raw, "tfvars")) # DictKeySet(DictGet(raw, "envs"))

\* C27: a load of a descriptor with a structural defect fails with a
\* KeyError without having read a declarations file or written a file; a
\* load of a descriptor without a tfvars section writes no file; and no
\* step but the generation of a validated set changes a file.
C27_StructuralChecksBeforeWrites ==
    /\ [](StructuralDefect =>
            /\ pc # "done"
            /\ pc = "failed" => outcome.type = "KeyError"
            /\ \A i \in 1..Len(reads) : reads[i] = InfraYamlPath
            /\ writes = <<>>)
    /\ []((Loaded /\ ~HasSection("tfvars")) =>
            /\ writes = <<>>
            /\ \A i \in 1..Len(reads) : reads[i] = InfraYamlPath)
    /\ [][files' # files => (pc = "generate" /\ Len(writes') = Len(writes) + 1)]_vars

\* The load failed on the tfvars names, the files of an earlier run being
\* as they were.
C27_Witness ==
    /\ pc = "failed"
    /\ outcome.what = "tfvars keys do not match envs keys"
    /\ writes = <<>>
    /\ \E path \in DOMAIN files : files[path] = OldText
    /\ Len(envs) = 2

-----------------------------------------------------------------------------
(* The two sets of the parser (under SpecParse).                           *)

\* C28: the names with a default that the parser returns are among the
\* names it returns as declared, so that the required names, all minus
\* defaulted, and the defaulted names together are all the names and share
\* none.
C28_DefaultedAmongDeclared ==
    (parsed # Pending /\ parsed.returned) =>
        /\ parsed.defaulted \subseteq parsed.all_vars
        /\ (parsed.all_vars \ parsed.defaulted) \cup parsed.defaulted = parsed.all_vars
        /\ Cardinality(parsed.all_vars \ parsed.defaulted)
                = Cardinality(parsed.all_vars) - Cardinality(parsed.defaulted)

\* Two names were returned, the second of them with a default.
C28_Witness ==
    /\ parsed # Pending /\ parsed.returned
    /\ parsed.all_vars = {A, B}
    /\ parsed.defaulted = {B}

-----------------------------------------------------------------------------
(* tasks.py: the tasks of build_infra_collection that run terraform, on an *)
(* InfraConfig that load_infra_config returned.  A command is a record:    *)
(* the directory it changes into, the terraform command, its arguments.    *)

\* infra_dir = config.project_root / "infra"
TasksInfraDir(cfg) == PathJoin(cfg.project_root, "infra")

\* The init task: the bucket lookup, then terraform init.
init(cfg, env) ==
    IF get_backend_bucket(cfg, env).raised THEN get_backend_bucket(cfg, env)
    ELSE Ran(<<[cd |-> TasksInfraDir(cfg), terraform |-> "init",
                bucket |-> get_backend_bucket(cfg, env).value.bucket_name]>>)

\* The command run first, terraform init after it.
RunThenInit(inited, command) ==
    IF inited.raised THEN inited ELSE Ran(<<command>> \o inited.commands)

\* init(c, env=env); c.run(...)
InitThenRun(inited, command) ==
    IF inited.raised THEN inited ELSE Ran(inited.commands \o <<command>>)

\* ./{env.lower()}.tfvars
VarFile(env) == TfvarsFileName(env)

plan(cfg, env) ==
    InitThenRun(init(cfg, env),
                [cd |-> TasksInfraDir(cfg), terraform |-> "plan",
                 var_file |-> VarFile(env)])

apply(cfg, env, auto_approve) ==
    InitThenRun(init(cfg, env),
                [cd |-> TasksInfraDir(cfg), terraform |-> "apply",
                 auto_approve |-> auto_approve, var_file |-> VarFile(env)])

raw_output(cfg, env, output) ==
    InitThenRun(init(cfg, env),
                [cd |-> TasksInfraDir(cfg), terraform |-> "output", output |-> output])

state_remove(cfg, env, resource) ==
    InitThenRun(init(cfg, env),
                [cd |-> TasksInfraDir(cfg), terraform |-> "state rm",
                 resource |-> resource])

state_list(cfg, env) ==
    InitThenRun(init(cfg, env), [cd |-> TasksInfraDir(cfg), terraform |-> "state list"])

\* The InfraConfig of the tasks: environments in infra or in infra/a, a
\* bucket of its own name for each of a list of environments, and a variable
\* set per environment.
TaskInfraDirNames == {"infra", "infra/a"}
TaskEnvConfigs(ns, ds) ==
    [i \in 1..Len(ns) |-> EnvConfig(ns[i], "GCP", None, "proj", ds[i])]
TaskBuckets(ns) ==
    [i \in 1..Len(ns) |-> BackendBucket(ns[i], "GCP", <<"bucket-of", ns[i]>>, None)]
TaskTfVars(ns) ==
    [i \in 1..Len(ns) |-> TfVars(ns[i], IF i = 1 THEN VarsA ELSE VarsAB)]

\* The files the loop of load_infra_config has written for the variable
\* sets from the k-th on.
RECURSIVE GeneratedFrom(_, _, _)
GeneratedFrom(fs, cfg, k) ==
    IF k > Len(cfg.tfvars) THEN fs
    ELSE GeneratedFrom(
            WriteText(fs,
                      TfvarsPath(InfraPathOf(get_env(cfg, cfg.tfvars[k].env).value),
                                 cfg.tfvars[k].env),
                      TfvarsText(cfg.tfvars[k].variables)),
            cfg, k + 1)

InitTasks ==
    /\ \E es \in DistinctSeqs(EnvNames, MaxEnvs), bs \in DistinctSeqs(EnvNames, MaxEnvs) :
        \E ds \in [1..Len(es) -> TaskInfraDirNames] :
            config = InfraConfig(TaskEnvConfigs(es, ds), TaskBuckets(bs), TaskTfVars(es),
                                 ProjectRoot)
    /\ files = GeneratedFrom(NoFiles, config, 1)
    /\ dirs = {PathJoin(ProjectRoot, d) : d \in TaskInfraDirNames}
    /\ lookup = Pending
    /\ given_env = EnvConfig(Dev, <<"G", "C", "P">>, None, "proj", "infra")
    /\ given_bucket = BackendBucket(Dev, <<"G", "C", "P">>, "bucket", None)
    /\ commands = <<>>
    /\ called = Pending
    /\ IdleLoad
    /\ IdleParse
    /\ IdleGen
    /\ IdleRoot

\* The task has raised or returned, the commands it ran being run.
TaskCalled(task, env, result) ==
    /\ called' = [raised |-> result.raised, returned |-> result.returned,
                  method |-> task, env |-> env, result |-> result]
    /\ commands' = IF result.returned THEN commands \o result.commands ELSE commands
    /\ UNCHANGED <<files, dirs, given_env, given_bucket, parseVars, loadVars,
                   lookupVars, genVars, rootVars>>

Plan ==
    /\ called = Pending
    /\ \E env \in LookupNames : TaskCalled("plan", env, plan(config, env))

Apply ==
    /\ called = Pending
    /\ \E env \in LookupNames, auto_approve \in BOOLEAN :
        TaskCalled("apply", env, apply(config, env, auto_approve))

RawOutput ==
    /\ called = Pending
    /\ \E env \in LookupNames : TaskCalled("raw_output", env, raw_output(config, env, "url"))

StateRemove ==
    /\ called = Pending
    /\ \E env \in LookupNames :
        TaskCalled("state_remove", env, state_remove(config, env, "res"))

StateList ==
    /\ called = Pending
    /\ \E env \in LookupNames : TaskCalled("state_list", env, state_list(config, env))

NextTasks == Plan \/ Apply \/ RawOutput \/ StateRemove \/ StateList

SpecTasks == InitTasks /\ [][NextTasks]_vars

-----------------------------------------------------------------------------
(* Properties of the tasks (under SpecTasks).                              *)

\* The buckets of the requested environment, whatever the case of its name.
BucketsOf(env) ==
    {i \in 1..Len(config.backend_buckets) :
        DifferOnlyInCase(config.backend_buckets[i].env, env)}

\* The terraform command each task runs after init.
OwnCommand(task) ==
    CASE task = "plan" -> "plan"
      [] task = "apply" -> "apply"
      [] task = "raw_output" -> "output"
      [] task = "state_remove" -> "state rm"
      [] task = "state_list" -> "state list"

\* C29: plan, apply, raw_output, state_remove and state_list run terraform
\* init with the bucket of the requested environment and then their own
\* terraform command, and nothing else; when the requested environment has
\* no bucket the task raises and no command is run.
C29_InitBeforeOwnCommand ==
    called # Pending =>
        IF BucketsOf(called.env) = {}
        THEN /\ called.raised
             /\ called.result.type = "ValueError"
             /\ commands = <<>>
        ELSE /\ called.returned
             /\ Len(commands) = 2
             /\ commands[1].terraform = "init"
             /\ \E i \in BucketsOf(called.env) :
                    commands[1].bucket = config.backend_buckets[i].bucket_name
             /\ commands[2].terraform = OwnCommand(called.method)

\* state_remove ran for DEV, whose bucket is configured as dev.
C29_Witness ==
    /\ called # Pending /\ called.returned
    /\ called.method = "state_remove"
    /\ called.env = DEV
    /\ commands[1].bucket = <<"bucket-of", Dev>>
    /\ Len(config.backend_buckets) = 2

\* C30: the variable file plan and apply hand to terraform for an
\* environment that has a variable set is the file load_infra_config
\* generated for it: the same path, holding the rendering of its set.
C30_VarFileIsGeneratedFile ==
    (/\ called # Pending /\ called.returned
     /\ called.method \in {"plan", "apply"}
     /\ get_env(config, called.env).returned) =>
        /\ PathJoin(commands[2].cd, commands[2].var_file)
                = TfvarsPath(InfraPathOf(get_env(config, called.env).value), called.env)
        /\ PathJoin(commands[2].cd, commands[2].var_file) \in DOMAIN files
        /\ files[PathJoin(commands[2].cd, commands[2].var_file)]
                = TfvarsText(get_tfvars(config, called.env).value.variables)

====
